---- MODULE Spec2Model ----
(***************************************************************************)
(* Ownership model of doogie (src/src/lib.rs): Node wrappers around        *)
(* libcmark node pointers, each holding an Rc<ResourceManager> whose       *)
(* `roots` vector is freed when the last reference to the manager goes.    *)
(*                                                                         *)
(* The engine (libcmark) is reached only through the extern "C" block of   *)
(* lib.rs; its primitives are modelled from the engine contract of the     *)
(* specification (section 6) as operators on an engine record.             *)
(*                                                                         *)
(* Applying an engine primitive to a freed handle is undefined behaviour.  *)
(* The model records it in `ub` and describes no behaviour after it: every *)
(* property below speaks of the behaviours up to and including the first   *)
(* such step.                                                              *)
(*                                                                         *)
(* Specifications: Spec is the ownership model over parsed documents;      *)
(* SpecNav the navigation methods with their returns kept in the history;  *)
(* SpecKinds pairs of nodes of every type code, wrapped and appended to    *)
(* one another; SpecManager one ResourceManager under calls of its methods;*)
(* SpecIter the walks of NodeIterator over parsed documents; SpecPrune the *)
(* walks of documents nodes are unlinked from; SpecId the ids of nodes at  *)
(* any placement of the allocator; SpecAsk the calls of can_append_child;  *)
(* SpecEdit unlink and append_child seen through navigation; SpecText the  *)
(* content of Text nodes and the fence info of code blocks; SpecDrift the  *)
(* walks of documents holding a node of a type NodeType does not have;     *)
(* SpecOwn unlink, append_child and drops through several Nodes of one     *)
(* node; SpecForest the same edits on documents with lists.                *)
(***************************************************************************)
EXTENDS Integers, Sequences, FiniteSets, TLC

\* ------------------------------------------------------------------ bounds
MaxHandles == 4
MaxNodes == 3
MaxHeld == 1
MaxTypeCode == 21
MaxPair == 2
MaxIters == 1
MaxLow == 3
MaxLen == 2

\* --------------------------------------------------------------- constants
NULL == 0
Success == 1
Failure == 0
CMarkNodeNone == 0

Handles == 1..MaxHandles
NodeIds == 1..MaxNodes
IterIds == 1..MaxIters
\* Every Node is built with a manager of its own: a manager is named by the
\* slot of the Node it was built for.
MgrIds == NodeIds

\* The 20 node kinds of the Node enum, by variant name.
BlockKinds ==
    {"Document", "BlockQuote", "List", "Item", "CodeBlock", "HtmlBlock",
     "CustomBlock", "Paragraph", "Heading", "ThematicBreak"}
InlineKinds ==
    {"Text", "SoftBreak", "LineBreak", "Code", "HtmlInline", "CustomInline",
     "Emph", "Strong", "Link", "Image"}
NodeKinds == BlockKinds \cup InlineKinds

\* The engine's node types by code (cmark_node_type): code 0 is its "none"
\* type and cmark_node_type[c] is the type with code c.
cmark_node_type ==
    << "Document", "BlockQuote", "List", "Item", "CodeBlock", "HtmlBlock",
       "CustomBlock", "Paragraph", "Heading", "ThematicBreak", "Text",
       "SoftBreak", "LineBreak", "Code", "HtmlInline", "CustomInline", "Emph",
       "Strong", "Link", "Image" >>

\* The codes the engine may report: those of its types and codes beyond them.
TypeCodes == 0..MaxTypeCode

\* The NodeType enum of constants.rs: CMarkNodeNone and one member per code.
NodeTypes ==
    << "CMarkNodeDocument", "CMarkNodeBlockQuote", "CMarkNodeList",
       "CMarkNodeItem", "CMarkNodeCodeBlock", "CMarkNodeHtmlBlock",
       "CMarkNodeCustomBlock", "CMarkNodeParagraph", "CMarkNodeHeading",
       "CMarkNodeThematicBreak", "CMarkNodeText", "CMarkNodeSoftbreak",
       "CMarkNodeLinebreak", "CMarkNodeCode", "CMarkNodeHtmlInline",
       "CMarkNodeCustomInline", "CMarkNodeEmph", "CMarkNodeStrong",
       "CMarkNodeLink", "CMarkNodeImage" >>

NodeType == {"CMarkNodeNone"} \cup {NodeTypes[c] : c \in DOMAIN NodeTypes}

\* Kinds the bounded runs allocate through from_type and the typed constructors.
AllocKinds == {"CMarkNodeParagraph"}

\* Documents the bounded runs parse, by the tree the engine builds for each:
\* the kind of every node in pre-order and the position of its parent.
ParseShapes ==
    { << [kind |-> "Document", up |-> 0], [kind |-> "Paragraph", up |-> 1],
         [kind |-> "Text", up |-> 2] >>,
      << [kind |-> "Document", up |-> 0], [kind |-> "Paragraph", up |-> 1],
         [kind |-> "Paragraph", up |-> 1], [kind |-> "Paragraph", up |-> 1] >> }

\* The documents the runs with iterators parse: the two above and lists of
\* two and of three empty items (the longer one needs five handles).
IterShapes ==
    ParseShapes \cup
    { << [kind |-> "Document", up |-> 0], [kind |-> "List", up |-> 1],
         [kind |-> "Item", up |-> 2], [kind |-> "Item", up |-> 2] >>,
      << [kind |-> "Document", up |-> 0], [kind |-> "List", up |-> 1],
         [kind |-> "Item", up |-> 2], [kind |-> "Item", up |-> 2],
         [kind |-> "Item", up |-> 2] >> }

VARIABLES
    engine,   \* libcmark's heap: kind, parent, children, freeCount, used
    nodes,    \* the live Rust Node values: pointer, manager, variant
    mgrs,     \* the ResourceManager objects: roots vector, extra Rc clones
    parsed,   \* history: the root parse_document tracked in a manager
    ub,       \* "none", or the undefined behaviour that has occurred
    last,     \* history: the operation that has just returned
    traced,   \* history: whether `last` also keeps what navigation returns
    iters     \* the NodeIterator values and the engine cursors they own

vars == <<engine, nodes, mgrs, parsed, ub, last, traced, iters>>

Range(s) == {s[i] : i \in DOMAIN s}

IndexOf(s, x) == CHOOSE i \in DOMAIN s : s[i] = x

RemoveItem(s, x) ==
    IF x \in Range(s)
    THEN LET i == IndexOf(s, x)
         IN  SubSeq(s, 1, i - 1) \o SubSeq(s, i + 1, Len(s))
    ELSE s

\* `node_type as u32`: the code of a NodeType member.
as_u32(node_type) ==
    IF node_type = "CMarkNodeNone" THEN CMarkNodeNone ELSE IndexOf(NodeTypes, node_type)

\* NodeType::try_from(u32): the member with the code, BadEnum for a code the
\* enum does not have.
try_from(code) ==
    IF code = CMarkNodeNone THEN [ok |-> TRUE, value |-> "CMarkNodeNone"]
    ELSE IF code \in DOMAIN NodeTypes THEN [ok |-> TRUE, value |-> NodeTypes[code]]
    ELSE [ok |-> FALSE, value |-> "BadEnum"]

\* -------------------------------------------------- the engine (libcmark)

\* The engine's type of a code, and the code of one of its types.
TypeName(code) == IF code \in DOMAIN cmark_node_type THEN cmark_node_type[code] ELSE "None"

CodeOf(kind) == IndexOf(cmark_node_type, kind)

\* A pointer is 64 bits wide: its upper and its lower 32 bits.  The nodes the
\* allocator hands out lie at distinct addresses of two 4 GiB regions.
HighWords == 0..1
LowWords == 1..MaxLow
AddressPool == {[high |-> i, low |-> j] : i \in HighWords, j \in LowWords}

\* The ways the allocator can place the nodes.
Placements ==
    {a \in [Handles -> AddressPool] : \A g, h \in Handles : a[g] = a[h] => g = h}

EmptyEngine ==
    [address |-> [h \in Handles |-> [high |-> 0, low |-> h]],
     kind |-> [h \in Handles |-> CMarkNodeNone],
     literal |-> [h \in Handles |-> << >>],
     fence_info |-> [h \in Handles |-> << >>],
     parent |-> [h \in Handles |-> NULL],
     children |-> [h \in Handles |-> << >>],
     freeCount |-> [h \in Handles |-> 0],
     used |-> 0]

IsFreed(E, h) == E.freeCount[h] > 0

\* The handles reachable from the handles of S in at most k child steps.
RECURSIVE Below(_, _, _)
Below(E, S, k) ==
    IF k = 0 THEN S
    ELSE Below(E, S \cup {c \in Handles : \E p \in S : c \in Range(E.children[p])}, k - 1)

\* A node and all its descendants per the current linkage.
Subtree(E, h) == Below(E, {h}, MaxHandles)

\* The node and its ancestors, following parent links.
RECURSIVE Above(_, _, _)
Above(E, h, k) ==
    IF h = NULL \/ k = 0 THEN {}
    ELSE {h} \cup Above(E, E.parent[h], k - 1)

cmark_node_get_type(E, h) == E.kind[h]

cmark_node_new(E, k) ==
    LET h == E.used + 1
    IN  [E EXCEPT !.kind[h] = k, !.used = h]

\* The tree the engine builds for a document: one new handle per node of the
\* shape, in pre-order, the first being the root.
cmark_parse_document(E, shape) ==
    LET base == E.used
        at(i) == base + i
    IN  [E EXCEPT
           !.kind = [h \in Handles |->
                        IF h > base /\ h <= base + Len(shape)
                        THEN CodeOf(shape[h - base].kind) ELSE E.kind[h]],
           !.parent = [h \in Handles |->
                        IF h > base /\ h <= base + Len(shape)
                        THEN (IF shape[h - base].up = 0 THEN NULL
                              ELSE at(shape[h - base].up))
                        ELSE E.parent[h]],
           !.children = [h \in Handles |->
                        IF h > base /\ h <= base + Len(shape)
                        THEN LET kids == {i \in DOMAIN shape : shape[i].up = h - base}
                                 RECURSIVE Sorted(_)
                                 Sorted(S) ==
                                     IF S = {} THEN << >>
                                     ELSE LET m == CHOOSE x \in S : \A y \in S : x <= y
                                          IN  <<at(m)>> \o Sorted(S \ {m})
                             IN  Sorted(kids)
                        ELSE E.children[h]],
           !.used = base + Len(shape)]

cmark_node_parent(E, h) == E.parent[h]

cmark_node_first_child(E, h) ==
    IF E.children[h] = << >> THEN NULL ELSE Head(E.children[h])

cmark_node_last_child(E, h) ==
    IF E.children[h] = << >> THEN NULL ELSE E.children[h][Len(E.children[h])]

cmark_node_next(E, h) ==
    LET p == E.parent[h]
    IN  IF p = NULL \/ h \notin Range(E.children[p]) THEN NULL
        ELSE LET i == IndexOf(E.children[p], h)
             IN  IF i < Len(E.children[p]) THEN E.children[p][i + 1] ELSE NULL

cmark_node_previous(E, h) ==
    LET p == E.parent[h]
    IN  IF p = NULL \/ h \notin Range(E.children[p]) THEN NULL
        ELSE LET i == IndexOf(E.children[p], h)
             IN  IF i > 1 THEN E.children[p][i - 1] ELSE NULL

\* Detaches h from its parent and siblings; h keeps its children.
cmark_node_unlink(E, h) ==
    LET p == E.parent[h]
    IN  IF p = NULL THEN E
        ELSE [E EXCEPT !.parent[h] = NULL,
                       !.children[p] = RemoveItem(E.children[p], h)]

\* The engine's own structural rule: which child a node of a kind accepts.
KindAccepts(pk, ck) ==
    CASE pk \in {"Document", "BlockQuote", "Item"} ->
             ck \in BlockKinds /\ ck # "Item"
      [] pk = "List" -> ck = "Item"
      [] pk = "CustomBlock" -> TRUE
      [] pk \in {"Paragraph", "Heading", "Emph", "Strong", "Link", "Image",
                 "CustomInline"} -> ck \in InlineKinds
      [] OTHER -> FALSE

\* The engine refuses a Document child, a child that is the node itself or
\* one of its ancestors, and a kind the node's kind does not accept.
S_can_contain(E, p, c) ==
    /\ TypeName(E.kind[c]) # "Document"
    /\ c \notin Above(E, p, MaxHandles)
    /\ KindAccepts(TypeName(E.kind[p]), TypeName(E.kind[c]))

cmark_node_append_child_status(E, p, c) ==
    IF S_can_contain(E, p, c) THEN Success ELSE Failure

\* Links c as the last child of p when the engine accepts it.
cmark_node_append_child(E, p, c) ==
    IF S_can_contain(E, p, c)
    THEN [E EXCEPT !.parent[c] = p, !.children[p] = Append(E.children[p], c)]
    ELSE E

\* Frees h and its whole subtree, detaching h from its parent first.  What a
\* freed node held is gone: it reports no kind and no links.
cmark_node_free(E, h) ==
    IF IsFreed(E, h)
    THEN [E EXCEPT !.freeCount[h] = 2]
    ELSE LET U == cmark_node_unlink(E, h)
             S == Subtree(U, h)
         IN  [U EXCEPT !.freeCount = [x \in Handles |->
                                        IF x \in S THEN U.freeCount[x] + 1
                                        ELSE U.freeCount[x]],
                       !.kind = [x \in Handles |-> IF x \in S THEN CMarkNodeNone ELSE U.kind[x]],
                       !.parent = [x \in Handles |-> IF x \in S THEN NULL ELSE U.parent[x]],
                       !.children = [x \in Handles |-> IF x \in S THEN << >> ELSE U.children[x]]]

\* ------------------------------------------------------------- text

\* The characters of the texts of the bounded runs: an ASCII letter, a letter
\* of two bytes, the space and the NUL character.
NUL == "NUL"
Chars == {"a", "e-acute", " ", NUL}
AlphanumericChars == {"a", "e-acute"}

\* The Rust Strings of the bounded runs.
BoundedSeq(S, k) == UNION {[1..m -> S] : m \in 0..k}
Strings == BoundedSeq(Chars, MaxLen)

\* The UTF-8 encoding of a character.
Utf8(c) ==
    CASE c = "a" -> <<97>>
      [] c = " " -> <<32>>
      [] c = "e-acute" -> <<195, 169>>
      [] c = NUL -> <<0>>

\* String::as_bytes: the encodings of the characters one after another.
RECURSIVE as_bytes(_)
as_bytes(string) ==
    IF string = << >> THEN << >> ELSE Utf8(Head(string)) \o as_bytes(Tail(string))

\* CString::new: the bytes, refused when one of them is zero.
CString_new(bytes) ==
    IF \E k \in DOMAIN bytes : bytes[k] = 0
    THEN [ok |-> FALSE, err |-> "NulError", bytes |-> << >>]
    ELSE [ok |-> TRUE, err |-> "Ok", bytes |-> bytes]

\* What a reader of a C string sees of the bytes: those before the first zero.
RECURSIVE c_str(_)
c_str(bytes) ==
    IF bytes = << >> \/ Head(bytes) = 0 THEN << >>
    ELSE <<Head(bytes)>> \o c_str(Tail(bytes))

\* CStr::to_str: the characters the bytes encode, refused when the bytes are
\* not the encoding of characters.
RECURSIVE to_str(_)
to_str(bytes) ==
    IF bytes = << >> THEN [ok |-> TRUE, err |-> "Ok", string |-> << >>]
    ELSE LET one == {c \in Chars : Utf8(c) = <<Head(bytes)>>}
             two == {c \in Chars : Len(bytes) > 1 /\ Utf8(c) = SubSeq(bytes, 1, 2)}
         IN  IF one # {}
             THEN LET rest == to_str(Tail(bytes))
                  IN  [rest EXCEPT !.string = <<CHOOSE c \in one : TRUE>> \o @]
             ELSE IF two # {}
             THEN LET rest == to_str(Tail(Tail(bytes)))
                  IN  [rest EXCEPT !.string = <<CHOOSE c \in two : TRUE>> \o @]
             ELSE [ok |-> FALSE, err |-> "Utf8Error", string |-> << >>]

\* The kinds of node that carry a literal.
LiteralKinds == {"HtmlBlock", "Text", "HtmlInline", "Code", "CodeBlock"}

\* The engine keeps its own copy of the C string it is handed and reports
\* success, or refuses a node of a kind without such a field.
cmark_node_set_literal_status(E, h) ==
    IF TypeName(E.kind[h]) \in LiteralKinds THEN Success ELSE Failure

cmark_node_set_literal(E, h, content) ==
    IF cmark_node_set_literal_status(E, h) = Success
    THEN [E EXCEPT !.literal[h] = c_str(content)]
    ELSE E

\* The literal as a C string, or absent (NULL) for a kind that has none.
cmark_node_get_literal(E, h) ==
    IF TypeName(E.kind[h]) \in LiteralKinds
    THEN [null |-> FALSE, bytes |-> E.literal[h] \o <<0>>]
    ELSE [null |-> TRUE, bytes |-> << >>]

cmark_node_set_fence_info_status(E, h) ==
    IF TypeName(E.kind[h]) = "CodeBlock" THEN Success ELSE Failure

cmark_node_set_fence_info(E, h, info) ==
    IF cmark_node_set_fence_info_status(E, h) = Success
    THEN [E EXCEPT !.fence_info[h] = c_str(info)]
    ELSE E

cmark_node_get_fence_info(E, h) ==
    IF TypeName(E.kind[h]) = "CodeBlock"
    THEN [null |-> FALSE, bytes |-> E.fence_info[h] \o <<0>>]
    ELSE [null |-> TRUE, bytes |-> << >>]

\* ------------------------------------------------------ engine cursors

\* The event codes of the engine's iterator.
CMARK_EVENT_NONE == 0
CMARK_EVENT_DONE == 1
CMARK_EVENT_ENTER == 2
CMARK_EVENT_EXIT == 3

\* The kinds the engine walks as leaves: entered, never exited.
LeafKinds ==
    {"HtmlBlock", "ThematicBreak", "CodeBlock", "Text", "SoftBreak", "LineBreak",
     "Code", "HtmlInline"}

S_is_leaf(E, h) == TypeName(E.kind[h]) \in LeafKinds

NoCursor ==
    [root |-> NULL,
     cur |-> [ev_type |-> CMARK_EVENT_NONE, node |-> NULL],
     next |-> [ev_type |-> CMARK_EVENT_NONE, node |-> NULL]]

\* A cursor at the start of the walk of root's subtree.
cmark_iter_new(root) ==
    [root |-> root,
     cur |-> [ev_type |-> CMARK_EVENT_NONE, node |-> NULL],
     next |-> [ev_type |-> CMARK_EVENT_ENTER, node |-> root]]

\* One step of the walk: the pending event becomes the current one and is
\* returned, and the event after it is worked out from the links of the tree
\* as they are now.  A node that is not the root and has neither a next
\* sibling nor a parent cannot be walked on from: the engine asserts against
\* it, and a build without assertions ends the walk.
cmark_iter_next(E, C, assertions) ==
    LET ev_type == C.next.ev_type
        node == C.next.node
        moved == [C EXCEPT !.cur = C.next]
        end == [ev_type |-> CMARK_EVENT_DONE, node |-> NULL]
    IN  IF ev_type = CMARK_EVENT_DONE
        THEN [iter |-> moved, ev_type |-> ev_type, aborted |-> FALSE]
        ELSE IF ev_type = CMARK_EVENT_ENTER /\ ~S_is_leaf(E, node)
        THEN [iter |-> [moved EXCEPT !.next =
                          IF cmark_node_first_child(E, node) = NULL
                          THEN [ev_type |-> CMARK_EVENT_EXIT, node |-> node]
                          ELSE [ev_type |-> CMARK_EVENT_ENTER,
                                node |-> cmark_node_first_child(E, node)]],
              ev_type |-> ev_type, aborted |-> FALSE]
        ELSE IF node = C.root
        THEN [iter |-> [moved EXCEPT !.next = end],
              ev_type |-> ev_type, aborted |-> FALSE]
        ELSE IF cmark_node_next(E, node) # NULL
        THEN [iter |-> [moved EXCEPT !.next =
                          [ev_type |-> CMARK_EVENT_ENTER,
                           node |-> cmark_node_next(E, node)]],
              ev_type |-> ev_type, aborted |-> FALSE]
        ELSE IF cmark_node_parent(E, node) # NULL
        THEN [iter |-> [moved EXCEPT !.next =
                          [ev_type |-> CMARK_EVENT_EXIT,
                           node |-> cmark_node_parent(E, node)]],
              ev_type |-> ev_type, aborted |-> FALSE]
        ELSE [iter |-> [moved EXCEPT !.next = end],
              ev_type |-> ev_type, aborted |-> assertions]

cmark_iter_get_node(C) == C.cur.node

\* The members of IterEventType, by event code.
IterEventTypes == <<"None", "Done", "Enter", "Exit">>

IterEventType_try_from(code) ==
    IF code + 1 \in DOMAIN IterEventTypes
    THEN [ok |-> TRUE, value |-> IterEventTypes[code + 1]]
    ELSE [ok |-> FALSE, value |-> "BadEnum"]

\* The slot of an iterator that was never made.  `released` counts the calls
\* of cmark_iter_free on the cursor; `trace` is the history of the pairs
\* next() has yielded, `ended` whether next() has returned None on a terminal
\* event code, `failed` whether it has returned None because a node could not
\* be wrapped, `disturbed` whether the subtree changed during the walk.  Of a
\* dropped iterator the slot keeps `released` and `ended`.
NoIter ==
    [state |-> "unused", cursor |-> NoCursor, released |-> 0, trace |-> << >>,
     ended |-> FALSE, failed |-> FALSE, disturbed |-> FALSE]

\* ------------------------------------------------------- ResourceManager

\* ResourceManager::new, and the slot of a manager that does not exist.
NewManager == [alive |-> TRUE, roots |-> << >>, held |-> 0]
NoManager == [alive |-> FALSE, roots |-> << >>, held |-> 0]

\* Mutant: track_root pushing the pointer without looking for it.
track_root_unchecked(roots, pointer) == Append(roots, pointer)

\* Mutant: the membership test of track_root inverted.
track_root_inverted(roots, pointer) ==
    IF pointer \in Range(roots) THEN Append(roots, pointer) ELSE roots

track_root(roots, pointer) ==
    IF pointer \in Range(roots) THEN roots ELSE Append(roots, pointer)

\* Mutant: untrack_root removes nothing.
untrack_root_noop(roots, pointer) == roots

untrack_root(roots, pointer) == RemoveItem(roots, pointer)

is_tracking(roots, pointer) == pointer \in Range(roots)

\* The allowed-child tables of constants.rs (DOCUMENT_CHILDREN, ...,
\* IMAGE_CHILDREN), by the Node variant whose arm of can_append_child uses
\* each: the child types the format's grammar allows under the kind.
BlockTypes == {NodeTypes[CodeOf(k)] : k \in BlockKinds}
InlineTypes == {NodeTypes[CodeOf(k)] : k \in InlineKinds}

CHILDREN(variant) ==
    CASE variant \in {"Document", "BlockQuote", "Item"} ->
             BlockTypes \ {"CMarkNodeDocument", "CMarkNodeItem"}
      [] variant = "CustomBlock" ->
             (BlockTypes \cup InlineTypes) \ {"CMarkNodeDocument"}
      [] variant \in {"Paragraph", "Heading", "CustomInline", "Emph", "Strong",
                      "Link", "Image"} -> InlineTypes
      [] OTHER -> {}

\* Mutant: a ResourceManager without its Drop, which frees nothing.
DropManager_leaks(E, roots) == E

\* Drop for ResourceManager: cmark_node_free on every root, in vector order.
RECURSIVE DropManager(_, _)
DropManager(E, roots) ==
    IF roots = << >> THEN E
    ELSE DropManager(cmark_node_free(E, Head(roots)), Tail(roots))

\* Some root of the vector is already freed when its turn to be freed comes.
RECURSIVE FreesTwice(_, _)
FreesTwice(E, roots) ==
    IF roots = << >> THEN FALSE
    ELSE \/ IsFreed(E, Head(roots))
         \/ FreesTwice(cmark_node_free(E, Head(roots)), Tail(roots))

\* ------------------------------------------------------------------ Node

NoNode == [live |-> FALSE, pointer |-> NULL, manager |-> 0, variant |-> "None"]

LiveNodes == {n \in NodeIds : nodes[n].live}

\* The strong count of the Rc<ResourceManager> m: one per Node holding it
\* plus the clones taken with manager() and kept.
StrongCount(N, M, m) ==
    Cardinality({n \in NodeIds : N[n].live /\ N[n].manager = m}) + M[m].held

Vacant(n) == ~nodes[n].live /\ ~mgrs[n].alive

HasRoom == \E n \in NodeIds : Vacant(n)

FreeNode == CHOOSE n \in NodeIds : Vacant(n) /\ \A k \in NodeIds : k < n => ~Vacant(k)
FreeMgr == FreeNode

Dangling(n) == IsFreed(engine, nodes[n].pointer)

RECURSIVE SumHeld(_)
SumHeld(S) ==
    IF S = {} THEN 0
    ELSE LET m == CHOOSE x \in S : TRUE IN mgrs[m].held + SumHeld(S \ {m})

\* The clones of manager references kept outside any Node.
HeldTotal == SumHeld(MgrIds)

\* What an operation returned: the Node it was called on, its argument, its
\* result ("Ok" or the DoogieError variant), the engine status it saw, and
\* whether the handle it moved had a parent when it was called.
Done(op, n, o, result, code, attached) ==
    [op |-> op, node |-> n, other |-> o, result |-> result, code |-> code,
     attached |-> attached]

\* The history after an operation no property below speaks of.
Idle == Done("other", 0, 0, "Ok", 0, FALSE)

\* Rust values have no identity beyond their contents, so the slots that name
\* the Nodes and managers are kept in one canonical order: occupied slots
\* first, ordered by what they hold.
SlotKey(N, M, P, n) ==
    (IF N[n].live THEN 100000 ELSE 0) + N[n].pointer * 10000
    + (IF M[n].alive THEN 1000 ELSE 0)
    + (IF M[n].roots = << >> THEN 0 ELSE M[n].roots[1] * 100)
    + M[n].held * 10 + P[n]

\* The canonical slot of each slot: its rank by key, ties by slot number.
SlotOrder(key) ==
    [n \in NodeIds |->
        1 + Cardinality({k \in NodeIds :
                           key[k] > key[n] \/ (key[k] = key[n] /\ k < n)})]

\* The iterators once the engine is E: a walk whose subtree an operation has
\* changed is marked as disturbed.
Marked(E) ==
    [i \in IterIds |->
        IF /\ iters[i].state = "live"
           /\ \/ Subtree(E, iters[i].cursor.root) # Subtree(engine, iters[i].cursor.root)
              \/ \E h \in Subtree(engine, iters[i].cursor.root) :
                     \/ E.children[h] # engine.children[h]
                     \/ E.freeCount[h] # engine.freeCount[h]
        THEN [iters[i] EXCEPT !.disturbed = TRUE]
        ELSE iters[i]]

\* The state an operation leaves, with the slots in canonical order.
CommitIter(E, N, M, P, U, L, I) ==
    \E ns \in {N} : \E ms \in {M} :
    \E key \in {[n \in NodeIds |-> SlotKey(ns, ms, P, n)]} :
    \E to \in {[n \in 0..MaxNodes |-> IF n = 0 THEN 0 ELSE SlotOrder(key)[n]]} :
    \E from \in {[i \in NodeIds |-> CHOOSE n \in NodeIds : to[n] = i]} :
        /\ engine' = E
        /\ nodes' = [i \in NodeIds |-> [ns[from[i]] EXCEPT !.manager = to[@]]]
        /\ mgrs' = [i \in MgrIds |-> ms[from[i]]]
        /\ parsed' = [i \in MgrIds |-> P[from[i]]]
        /\ ub' = U
        /\ last' = [L EXCEPT !.node = to[@], !.other = to[@]]
        /\ traced' = traced
        /\ iters' = I

\* The state an operation that touches no iterator leaves.
Commit(E, N, M, P, U, L) == CommitIter(E, N, M, P, U, L, Marked(E))

\* An engine primitive was applied to a freed handle: undefined behaviour.
Undefined == Commit(engine, nodes, mgrs, parsed, "use_after_free", Idle)

\* Mutant: the Softbreak and Linebreak arms of the match exchanged.
NodeVariant_swapped(cmark_type) ==
    CASE cmark_type = "CMarkNodeSoftbreak" -> "LineBreak"
      [] cmark_type = "CMarkNodeLinebreak" -> "SoftBreak"
      [] OTHER -> cmark_node_type[as_u32(cmark_type)]

\* The match of Node::from_raw: the Node variant built for a NodeType.
NodeVariant(cmark_type) ==
    CASE cmark_type = "CMarkNodeDocument" -> "Document"
      [] cmark_type = "CMarkNodeList" -> "List"
      [] cmark_type = "CMarkNodeBlockQuote" -> "BlockQuote"
      [] cmark_type = "CMarkNodeText" -> "Text"
      [] cmark_type = "CMarkNodeParagraph" -> "Paragraph"
      [] cmark_type = "CMarkNodeItem" -> "Item"
      [] cmark_type = "CMarkNodeCodeBlock" -> "CodeBlock"
      [] cmark_type = "CMarkNodeHtmlBlock" -> "HtmlBlock"
      [] cmark_type = "CMarkNodeCustomBlock" -> "CustomBlock"
      [] cmark_type = "CMarkNodeHeading" -> "Heading"
      [] cmark_type = "CMarkNodeThematicBreak" -> "ThematicBreak"
      [] cmark_type = "CMarkNodeSoftbreak" -> "SoftBreak"
      [] cmark_type = "CMarkNodeLinebreak" -> "LineBreak"
      [] cmark_type = "CMarkNodeCode" -> "Code"
      [] cmark_type = "CMarkNodeHtmlInline" -> "HtmlInline"
      [] cmark_type = "CMarkNodeCustomInline" -> "CustomInline"
      [] cmark_type = "CMarkNodeEmph" -> "Emph"
      [] cmark_type = "CMarkNodeStrong" -> "Strong"
      [] cmark_type = "CMarkNodeLink" -> "Link"
      [] cmark_type = "CMarkNodeImage" -> "Image"

\* Mutant: Node::from_raw tracking the pointer in the manager it creates.
from_raw_tracking(E, m, pointer) ==
    LET cmark_type == try_from(cmark_node_get_type(E, pointer))
    IN  [ok |-> TRUE, err |-> "Ok",
         node |-> [live |-> TRUE, pointer |-> pointer, manager |-> m,
                   variant |-> NodeVariant(cmark_type.value)],
         manager |-> [NewManager EXCEPT !.roots = <<pointer>>]]

\* Node::from_raw: a Node of the variant for the type the engine reports for
\* the pointer, with a manager of its own that tracks nothing; BadEnum for a
\* code NodeType does not have, NodeNone for CMarkNodeNone.
from_raw(E, m, pointer) ==
    LET cmark_type == try_from(cmark_node_get_type(E, pointer))
    IN  IF ~cmark_type.ok
        THEN [ok |-> FALSE, err |-> "BadEnum", node |-> NoNode, manager |-> NoManager]
        ELSE IF cmark_type.value = "CMarkNodeNone"
        THEN [ok |-> FALSE, err |-> "NodeNone", node |-> NoNode, manager |-> NoManager]
        ELSE [ok |-> TRUE, err |-> "Ok",
              node |-> [live |-> TRUE, pointer |-> pointer, manager |-> m,
                        variant |-> NodeVariant(cmark_type.value)],
              manager |-> NewManager]

\* Resource::from_node_type, as the typed constructors call it.
from_node_type(E, node_type) == cmark_node_new(E, as_u32(node_type))

\* The state before any call, with the history kept as t says.
StartAt(E, t) ==
    /\ engine = E
    /\ nodes = [n \in NodeIds |-> NoNode]
    /\ mgrs = [m \in MgrIds |-> NoManager]
    /\ parsed = [m \in MgrIds |-> NULL]
    /\ ub = "none"
    /\ last = Idle
    /\ traced = t
    /\ iters = [i \in IterIds |-> NoIter]

Start(t) == StartAt(EmptyEngine, t)

Init == Start(FALSE)

parse_document(shape) ==
    /\ ub = "none"
    /\ HasRoom
    /\ engine.used + Len(shape) <= MaxHandles
    /\ LET n == FreeNode
           manager == FreeMgr
           root_ptr == engine.used + 1
       IN  Commit(cmark_parse_document(engine, shape),
                  [nodes EXCEPT ![n] =
                      [live |-> TRUE, pointer |-> root_ptr, manager |-> manager,
                       variant |-> "Document"]],
                  [mgrs EXCEPT ![manager] =
                      [NewManager EXCEPT !.roots = track_root(@, root_ptr)]],
                  [parsed EXCEPT ![manager] = root_ptr],
                  ub,
                  Done("parse_document", n, 0, "Ok", 0, FALSE))

from_type(node_type) ==
    /\ ub = "none"
    /\ HasRoom
    /\ engine.used < MaxHandles
    /\ LET n == FreeNode
           E == cmark_node_new(engine, as_u32(node_type))
           pointer == E.used
           r == from_raw(E, FreeMgr, pointer)
       IN  Commit(E,
                  [nodes EXCEPT ![n] = r.node],
                  [mgrs EXCEPT ![FreeMgr] = r.manager],
                  parsed, ub,
                  Done("from_type", IF r.ok THEN n ELSE 0, 0, r.err, 0, FALSE))

\* A node allocated with the engine and wrapped with Node::from_raw, as
\* tests::test_from_raw does, for any type code.
test_from_raw(code) ==
    /\ ub = "none"
    /\ HasRoom
    /\ engine.used < MaxHandles
    /\ LET n == FreeNode
           E == cmark_node_new(engine, code)
           node_pointer == E.used
           r == from_raw(E, FreeMgr, node_pointer)
       IN  Commit(E,
                  [nodes EXCEPT ![n] = r.node],
                  [mgrs EXCEPT ![FreeMgr] = r.manager],
                  parsed, ub,
                  Done("from_raw", IF r.ok THEN n ELSE 0, 0, r.err, 0, FALSE))

\* The type codes of an engine whose registry of kinds has drifted from
\* NodeType's.
DriftCodes == {code \in TypeCodes : ~try_from(code).ok}

\* parse_document on an engine that gives the node at position `at` of the
\* document a kind of code `code`.
parse_drifted(shape, at, code) ==
    /\ ub = "none"
    /\ HasRoom
    /\ engine.used + Len(shape) <= MaxHandles
    /\ LET n == FreeNode
           manager == FreeMgr
           root_ptr == engine.used + 1
       IN  Commit([cmark_parse_document(engine, shape) EXCEPT
                      !.kind[engine.used + at] = code],
                  [nodes EXCEPT ![n] =
                      [live |-> TRUE, pointer |-> root_ptr, manager |-> manager,
                       variant |-> "Document"]],
                  [mgrs EXCEPT ![manager] =
                      [NewManager EXCEPT !.roots = track_root(@, root_ptr)]],
                  [parsed EXCEPT ![manager] = root_ptr],
                  ub,
                  Done("parse_document", n, 0, "Ok", 0, FALSE))

\* The typed constructors (Document::new, Paragraph::new, Text::new, ...).
typed_new(node_type) ==
    /\ ub = "none"
    /\ HasRoom
    /\ engine.used < MaxHandles
    /\ LET n == FreeNode
           E == from_node_type(engine, node_type)
       IN  Commit(E,
                  [nodes EXCEPT ![n] =
                      [live |-> TRUE, pointer |-> E.used, manager |-> FreeMgr,
                       variant |-> NodeVariant(node_type)]],
                  [mgrs EXCEPT ![FreeMgr] = NewManager],
                  parsed, ub,
                  Done("new", n, 0, "Ok", 0, FALSE))

\* What the history keeps of a navigation method's return.
Kept(L) == IF traced THEN L ELSE Idle

\* Mutant: a null pointer from the engine reported as an error.
Navigate_null_is_error(op, n, ptr) ==
    IF ptr = NULL
    THEN Commit(engine, nodes, mgrs, parsed, ub,
                Kept(Done(op, n, 0, "ResourceUnavailable", 0, FALSE)))
    ELSE /\ HasRoom
         /\ LET r == from_raw(engine, FreeMgr, ptr)
            IN  Commit(engine,
                       [nodes EXCEPT ![FreeNode] = r.node],
                       [mgrs EXCEPT ![FreeMgr] = r.manager],
                       parsed, ub, Kept(Done(op, n, FreeNode, "Some", 0, FALSE)))

\* The common body of the five navigation methods and of itself: the absent
\* outcome ("None") for a null pointer, else the pointer wrapped by from_raw
\* ("Some"), or from_raw's error.
Navigate(op, n, ptr) ==
    IF ptr = NULL
    THEN Commit(engine, nodes, mgrs, parsed, ub, Kept(Done(op, n, 0, "None", 0, FALSE)))
    ELSE /\ HasRoom
         /\ LET r == from_raw(engine, FreeMgr, ptr)
            IN  IF r.ok
                THEN Commit(engine,
                            [nodes EXCEPT ![FreeNode] = r.node],
                            [mgrs EXCEPT ![FreeMgr] = r.manager],
                            parsed, ub, Kept(Done(op, n, FreeNode, "Some", 0, FALSE)))
                ELSE Commit(engine, nodes, mgrs, parsed, ub,
                            Kept(Done(op, n, 0, r.err, 0, FALSE)))

next_sibling(n) ==
    /\ ub = "none" /\ nodes[n].live
    /\ IF Dangling(n) THEN Undefined
       ELSE Navigate("next_sibling", n, cmark_node_next(engine, nodes[n].pointer))

prev_sibling(n) ==
    /\ ub = "none" /\ nodes[n].live
    /\ IF Dangling(n) THEN Undefined
       ELSE Navigate("prev_sibling", n, cmark_node_previous(engine, nodes[n].pointer))

parent(n) ==
    /\ ub = "none" /\ nodes[n].live
    /\ IF Dangling(n) THEN Undefined
       ELSE Navigate("parent", n, cmark_node_parent(engine, nodes[n].pointer))

first_child(n) ==
    /\ ub = "none" /\ nodes[n].live
    /\ IF Dangling(n) THEN Undefined
       ELSE Navigate("first_child", n, cmark_node_first_child(engine, nodes[n].pointer))

last_child(n) ==
    /\ ub = "none" /\ nodes[n].live
    /\ IF Dangling(n) THEN Undefined
       ELSE Navigate("last_child", n, cmark_node_last_child(engine, nodes[n].pointer))

itself(n) ==
    /\ ub = "none" /\ nodes[n].live
    /\ IF Dangling(n) THEN Undefined
       ELSE Navigate("itself", n, nodes[n].pointer)

\* The cast `as u32` of a pointer: its lower 32 bits.
as_u32_pointer(address) == address.low

\* Node::get_id on the Node in slot n.
Node_get_id(E, node) == as_u32_pointer(E.address[node.pointer])

get_id(n) ==
    /\ ub = "none" /\ nodes[n].live
    /\ Commit(engine, nodes, mgrs, parsed, ub,
              Done("get_id", n, 0, "Ok", Node_get_id(engine, nodes[n]), FALSE))

\* Mutant: Nodes compared by pointer and by manager.
eq_same_manager(self, other) ==
    self.pointer = other.pointer /\ self.manager = other.manager

\* PartialEq for Node.
eq(self, other) == self.pointer = other.pointer

\* Mutant: the Paragraph arm of can_append_child looking into the table of
\* Document.
can_append_child_wrong_table(E, self, child) ==
    LET child_type == try_from(cmark_node_get_type(E, child.pointer))
    IN  IF ~child_type.ok THEN [ok |-> FALSE, value |-> FALSE]
        ELSE [ok |-> TRUE,
              value |-> CASE self.variant = "Paragraph" ->
                                 child_type.value \in CHILDREN("Document")
                          [] self.variant = "List" -> child_type.value = "CMarkNodeItem"
                          [] OTHER -> child_type.value \in CHILDREN(self.variant)]

\* Node::can_append_child: the child's type as the engine reports it, looked
\* up in the table of self's variant (for a List: compared with Item).
can_append_child(E, self, child) ==
    LET child_type == try_from(cmark_node_get_type(E, child.pointer))
    IN  IF ~child_type.ok THEN [ok |-> FALSE, value |-> FALSE]
        ELSE [ok |-> TRUE,
              value |-> CASE self.variant = "List" -> child_type.value = "CMarkNodeItem"
                          [] OTHER -> child_type.value \in CHILDREN(self.variant)]

\* Mutant: Node::unlink detaches the node but does not track it.
node_unlink_untracked(E, M, pointer, manager) ==
    [engine |-> cmark_node_unlink(E, pointer), mgrs |-> M]

\* Mutant: Node::unlink tracks the node but leaves it where it is.
node_unlink_attached(E, M, pointer, manager) ==
    [engine |-> E, mgrs |-> [M EXCEPT ![manager].roots = track_root(@, pointer)]]

\* The body of Node::unlink on engine E and managers M.
node_unlink(E, M, pointer, manager) ==
    [engine |-> cmark_node_unlink(E, pointer),
     mgrs |-> [M EXCEPT ![manager].roots = track_root(@, pointer)]]

unlink(n) ==
    /\ ub = "none" /\ nodes[n].live
    /\ IF Dangling(n) THEN Undefined
       ELSE LET pointer == nodes[n].pointer
                r == node_unlink(engine, mgrs, pointer, nodes[n].manager)
            IN  Commit(r.engine, nodes, r.mgrs, parsed, ub,
                       Done("unlink", n, 0, "Ok", 0, engine.parent[pointer] # NULL))

\* What can_append_child returned, as the history keeps it.
Answer(r) == IF ~r.ok THEN "BadEnum" ELSE IF r.value THEN "True" ELSE "False"

\* Mutant: can_append_child starting, as append_child does, with the unlink
\* of the child.
can_append_child_call_unlinks(n, c) ==
    /\ ub = "none" /\ nodes[n].live /\ nodes[c].live
    /\ IF Dangling(c) THEN Undefined
       ELSE LET u == node_unlink(engine, mgrs, nodes[c].pointer, nodes[c].manager)
            IN  Commit(u.engine, nodes, u.mgrs, parsed, ub,
                       Done("can_append_child", n, c,
                            Answer(can_append_child(u.engine, nodes[n], nodes[c])),
                            0, FALSE))

\* A call of Node::can_append_child on the Nodes in slots n and c.  Only the
\* child's pointer is handed to the engine.
can_append_child_call(n, c) ==
    /\ ub = "none" /\ nodes[n].live /\ nodes[c].live
    /\ IF Dangling(c) THEN Undefined
       ELSE Commit(engine, nodes, mgrs, parsed, ub,
                   Done("can_append_child", n, c,
                        Answer(can_append_child(engine, nodes[n], nodes[c])),
                        0, FALSE))

\* Mutant: Node::append_child handing the two pointers to the engine in the
\* wrong order.
node_append_child_swapped(E, M, self, child, manager) ==
    LET u == node_unlink(E, M, child, manager)
        result == cmark_node_append_child_status(u.engine, child, self)
    IN  [engine |-> cmark_node_append_child(u.engine, child, self),
         mgrs |-> IF result = Success
                  THEN [u.mgrs EXCEPT ![manager].roots = untrack_root(@, child)]
                  ELSE u.mgrs,
         result |-> result]

\* Mutant: Node::append_child without the child.unlink() it starts with.
node_append_child_no_unlink(E, M, self, child, manager) ==
    LET result == cmark_node_append_child_status(E, self, child)
    IN  [engine |-> cmark_node_append_child(E, self, child),
         mgrs |-> IF result = Success
                  THEN [M EXCEPT ![manager].roots = untrack_root(@, child)]
                  ELSE M,
         result |-> result]

\* Mutant: append_child untracking the child in every manager.
node_append_child_untracks_everywhere(E, M, self, child, manager) ==
    LET u == node_unlink(E, M, child, manager)
        result == cmark_node_append_child_status(u.engine, self, child)
    IN  [engine |-> cmark_node_append_child(u.engine, self, child),
         mgrs |-> IF result = Success
                  THEN [m \in MgrIds |->
                           [u.mgrs[m] EXCEPT !.roots = untrack_root(@, child)]]
                  ELSE u.mgrs,
         result |-> result]

\* The body of Node::append_child: self and child are the two pointers,
\* manager is the child's manager.
node_append_child(E, M, self, child, manager) ==
    LET u == node_unlink(E, M, child, manager)
        result == cmark_node_append_child_status(u.engine, self, child)
    IN  [engine |-> cmark_node_append_child(u.engine, self, child),
         mgrs |-> IF result = Success
                  THEN [u.mgrs EXCEPT ![manager].roots = untrack_root(@, child)]
                  ELSE u.mgrs,
         result |-> result]

append_child(n, c) ==
    /\ ub = "none" /\ nodes[n].live /\ nodes[c].live /\ n # c
    /\ IF Dangling(n) \/ Dangling(c) THEN Undefined
       ELSE LET child == nodes[c].pointer
                r == node_append_child(engine, mgrs, nodes[n].pointer, child,
                                       nodes[c].manager)
            IN  Commit(r.engine, nodes, r.mgrs, parsed, ub,
                       Done("append_child", n, c,
                            IF r.result = Success THEN "Ok" ELSE "ReturnCode",
                            r.result, engine.parent[child] # NULL))

\* Mutant: the manager torn down whenever one reference to it goes.
Release_eager(m, N, M) ==
    Commit(DropManager(engine, M[m].roots),
           N,
           [M EXCEPT ![m] = NoManager],
           [parsed EXCEPT ![m] = NULL],
           IF FreesTwice(engine, M[m].roots) THEN "double_free" ELSE ub,
           Idle)

\* One reference to manager m is gone and N, M are the nodes and managers
\* without it: the manager is dropped when no reference is left.
Release(m, N, M) ==
    IF StrongCount(N, M, m) = 0
    THEN Commit(DropManager(engine, M[m].roots),
                N,
                [M EXCEPT ![m] = NoManager],
                [parsed EXCEPT ![m] = NULL],
                IF FreesTwice(engine, M[m].roots) THEN "double_free" ELSE ub,
                Idle)
    ELSE Commit(engine, N, M, parsed, ub, Idle)

\* Mutant: a Node that frees its own pointer when it goes out of scope.
drop_node_frees_pointer(n) ==
    /\ ub = "none" /\ nodes[n].live
    /\ Commit(cmark_node_free(engine, nodes[n].pointer),
              [nodes EXCEPT ![n] = NoNode],
              [mgrs EXCEPT ![nodes[n].manager] = NoManager],
              [parsed EXCEPT ![nodes[n].manager] = NULL],
              ub, Idle)

\* A Node goes out of scope.
drop_node(n) ==
    /\ ub = "none" /\ nodes[n].live
    /\ Release(nodes[n].manager, [nodes EXCEPT ![n] = NoNode], mgrs)

\* NodeResource::manager: a clone of the Node's Rc<ResourceManager>, kept by
\* the caller (as the tests do).
manager(n) ==
    /\ ub = "none" /\ nodes[n].live
    /\ HeldTotal < MaxHeld
    /\ Commit(engine, nodes, [mgrs EXCEPT ![nodes[n].manager].held = @ + 1],
              parsed, ub, Idle)

\* A kept clone of the manager reference goes out of scope.
drop_manager_ref(m) ==
    /\ ub = "none" /\ mgrs[m].alive /\ mgrs[m].held > 0
    /\ Release(m, nodes, [mgrs EXCEPT ![m].held = @ - 1])

\* An Rc<ResourceManager> built and kept outside any Node, the only manager
\* there is.
new_manager ==
    /\ ub = "none"
    /\ \A m \in MgrIds : ~mgrs[m].alive
    /\ HeldTotal < MaxHeld
    /\ Commit(engine, nodes,
              [mgrs EXCEPT ![FreeMgr] = [NewManager EXCEPT !.held = 1]],
              parsed, ub, Idle)

\* ResourceManager::track_root called on a manager for any pointer value; the
\* history keeps the pointer and whether it was tracked before.
manager_track_root(m, pointer) ==
    /\ ub = "none" /\ mgrs[m].alive
    /\ Commit(engine, nodes,
              [mgrs EXCEPT ![m].roots = track_root(@, pointer)],
              parsed, ub,
              Done("track_root", 0, 0, "Ok", pointer, is_tracking(mgrs[m].roots, pointer)))

\* ResourceManager::untrack_root called on a manager for any pointer value.
manager_untrack_root(m, pointer) ==
    /\ ub = "none" /\ mgrs[m].alive
    /\ Commit(engine, nodes,
              [mgrs EXCEPT ![m].roots = untrack_root(@, pointer)],
              parsed, ub,
              Done("untrack_root", 0, 0, "Ok", pointer, is_tracking(mgrs[m].roots, pointer)))

\* ---------------------------------------------------------- text fields

\* What the history keeps of a call that takes or returns a text.
DoneText(op, n, result, text) ==
    [op |-> op, node |-> n, other |-> 0, result |-> result, code |-> 0,
     attached |-> FALSE, text |-> text]

\* Mutant: the text handed to the engine without its last character.
Text_set_content_short(E, pointer, content) ==
    LET c == CString_new(as_bytes(SubSeq(content, 1, Len(content) - 1)))
    IN  IF ~c.ok THEN [engine |-> E, result |-> c.err]
        ELSE [engine |-> cmark_node_set_literal(E, pointer, c.bytes \o <<0>>),
              result |-> IF cmark_node_set_literal_status(E, pointer) = Success
                         THEN "Ok" ELSE "ReturnCode"]

\* Text::set_content: the content as a C string handed to the engine.
Text_set_content(E, pointer, content) ==
    LET c == CString_new(as_bytes(content))
    IN  IF ~c.ok THEN [engine |-> E, result |-> c.err]
        ELSE [engine |-> cmark_node_set_literal(E, pointer, c.bytes \o <<0>>),
              result |-> IF cmark_node_set_literal_status(E, pointer) = Success
                         THEN "Ok" ELSE "ReturnCode"]

\* Text::get_content: the engine's literal as a String, the empty String
\* for a null pointer.
Text_get_content(E, pointer) ==
    LET result == cmark_node_get_literal(E, pointer)
    IN  IF result.null THEN [ok |-> TRUE, err |-> "Ok", string |-> << >>]
        ELSE to_str(c_str(result.bytes))

\* Mutant: the info handed to the engine as the literal of the code block.
CodeBlock_set_fence_info_as_literal(E, pointer, info) ==
    LET c == CString_new(as_bytes(info))
    IN  IF ~c.ok THEN [engine |-> E, result |-> c.err]
        ELSE [engine |-> cmark_node_set_literal(E, pointer, c.bytes \o <<0>>),
              result |-> IF cmark_node_set_literal_status(E, pointer) = Success
                         THEN "Ok" ELSE "ReturnCode"]

\* CodeBlock::set_fence_info.
CodeBlock_set_fence_info(E, pointer, info) ==
    LET c == CString_new(as_bytes(info))
    IN  IF ~c.ok THEN [engine |-> E, result |-> c.err]
        ELSE [engine |-> cmark_node_set_fence_info(E, pointer, c.bytes \o <<0>>),
              result |-> IF cmark_node_set_fence_info_status(E, pointer) = Success
                         THEN "Ok" ELSE "ReturnCode"]

\* CodeBlock::get_fence_info: the engine's pointer read as a C string with no
\* test for null.
CodeBlock_get_fence_info(E, pointer) ==
    to_str(c_str(cmark_node_get_fence_info(E, pointer).bytes))

set_content(n, content) ==
    /\ ub = "none" /\ nodes[n].live /\ nodes[n].variant = "Text"
    /\ IF Dangling(n) THEN Undefined
       ELSE LET r == Text_set_content(engine, nodes[n].pointer, content)
            IN  Commit(r.engine, nodes, mgrs, parsed, ub,
                       DoneText("set_content", n, r.result, content))

get_content(n) ==
    /\ ub = "none" /\ nodes[n].live /\ nodes[n].variant = "Text"
    /\ IF Dangling(n) THEN Undefined
       ELSE LET r == Text_get_content(engine, nodes[n].pointer)
            IN  Commit(engine, nodes, mgrs, parsed, ub,
                       DoneText("get_content", n, r.err, r.string))

set_fence_info(n, info) ==
    /\ ub = "none" /\ nodes[n].live /\ nodes[n].variant = "CodeBlock"
    /\ IF Dangling(n) THEN Undefined
       ELSE LET r == CodeBlock_set_fence_info(engine, nodes[n].pointer, info)
            IN  Commit(r.engine, nodes, mgrs, parsed, ub,
                       DoneText("set_fence_info", n, r.result, info))

get_fence_info(n) ==
    /\ ub = "none" /\ nodes[n].live /\ nodes[n].variant = "CodeBlock"
    /\ IF Dangling(n) THEN Undefined
       ELSE LET r == CodeBlock_get_fence_info(engine, nodes[n].pointer)
            IN  Commit(engine, nodes, mgrs, parsed, ub,
                       DoneText("get_fence_info", n, r.err, r.string))

\* ------------------------------------------------------------ NodeIterator

\* Node::iter: a NodeIterator on a new engine cursor rooted at the Node's
\* pointer.  It keeps no reference to the Node or to its manager.
iter(n) ==
    /\ ub = "none" /\ nodes[n].live
    /\ \E i \in IterIds :
        /\ iters[i].state = "unused"
        /\ \A k \in IterIds : k < i => iters[k].state # "unused"
        /\ IF Dangling(n) THEN Undefined
           ELSE CommitIter(engine, nodes, mgrs, parsed, ub,
                           Done("iter", n, 0, "Ok", 0, FALSE),
                           [iters EXCEPT ![i] =
                               [NoIter EXCEPT !.state = "live",
                                              !.cursor = cmark_iter_new(nodes[n].pointer)]])

\* Mutant: a NodeIterator that starts the walk again once the engine is done.
NodeIterator_next_restarts(E, C, assertions) ==
    LET r == cmark_iter_next(E, C, assertions)
        event_type == IterEventType_try_from(r.ev_type)
    IN  IF r.aborted
        THEN [cursor |-> r.iter, result |-> "Abort", pointer |-> NULL,
              event |-> "None", terminal |-> FALSE]
        ELSE IF event_type.ok /\ event_type.value \in {"Done", "None"}
        THEN [cursor |-> cmark_iter_new(C.root), result |-> "None", pointer |-> NULL,
              event |-> event_type.value, terminal |-> TRUE]
        ELSE IF event_type.ok
        THEN [cursor |-> r.iter, result |-> "Some",
              pointer |-> cmark_iter_get_node(r.iter),
              event |-> event_type.value, terminal |-> FALSE]
        ELSE [cursor |-> r.iter, result |-> "None", pointer |-> NULL,
              event |-> "None", terminal |-> FALSE]

\* Mutant: a NodeIterator that ends the sequence at an exit event.
NodeIterator_next_no_exit(E, C, assertions) ==
    LET r == cmark_iter_next(E, C, assertions)
        event_type == IterEventType_try_from(r.ev_type)
    IN  IF r.aborted
        THEN [cursor |-> r.iter, result |-> "Abort", pointer |-> NULL,
              event |-> "None", terminal |-> FALSE]
        ELSE IF event_type.ok /\ event_type.value \in {"Done", "None"}
        THEN [cursor |-> r.iter, result |-> "None", pointer |-> NULL,
              event |-> event_type.value, terminal |-> TRUE]
        ELSE IF event_type.ok /\ event_type.value = "Enter"
        THEN [cursor |-> r.iter, result |-> "Some",
              pointer |-> cmark_iter_get_node(r.iter),
              event |-> event_type.value, terminal |-> FALSE]
        ELSE [cursor |-> r.iter, result |-> "None", pointer |-> NULL,
              event |-> "None", terminal |-> FALSE]

\* The match of NodeIterator::next on the event code of cmark_iter_next:
\* None on the terminal codes and on a code outside IterEventType, else the
\* current node of the cursor and the event.
NodeIterator_next(E, C, assertions) ==
    LET r == cmark_iter_next(E, C, assertions)
        event_type == IterEventType_try_from(r.ev_type)
    IN  IF r.aborted
        THEN [cursor |-> r.iter, result |-> "Abort", pointer |-> NULL,
              event |-> "None", terminal |-> FALSE]
        ELSE IF event_type.ok /\ event_type.value \in {"Done", "None"}
        THEN [cursor |-> r.iter, result |-> "None", pointer |-> NULL,
              event |-> event_type.value, terminal |-> TRUE]
        ELSE IF event_type.ok
        THEN [cursor |-> r.iter, result |-> "Some",
              pointer |-> cmark_iter_get_node(r.iter),
              event |-> event_type.value, terminal |-> FALSE]
        ELSE [cursor |-> r.iter, result |-> "None", pointer |-> NULL,
              event |-> "None", terminal |-> FALSE]

\* NodeIterator::next: the yielded pointer is wrapped by from_raw, whose
\* error ends the sequence without being reported.  The cursor reads the
\* node it stands on, so walking on from a freed node is undefined.
next(i) ==
    /\ ub = "none" /\ iters[i].state = "live"
    /\ LET C == iters[i].cursor
       IN  IF C.next.node # NULL /\ IsFreed(engine, C.next.node)
           THEN Undefined
           ELSE \E assertions \in BOOLEAN :
                LET r == NodeIterator_next(engine, C, assertions)
                    moved == [iters EXCEPT ![i].cursor = r.cursor]
                IN  IF r.result = "Abort"
                    THEN CommitIter(engine, nodes, mgrs, parsed, "abort", Idle, moved)
                    ELSE IF r.result = "None"
                    THEN CommitIter(engine, nodes, mgrs, parsed, ub,
                                    Done("next", 0, 0, "None", i, FALSE),
                                    [moved EXCEPT ![i].ended = @ \/ r.terminal])
                    ELSE /\ HasRoom
                         /\ LET w == from_raw(engine, FreeMgr, r.pointer)
                            IN  IF w.ok
                                THEN CommitIter(engine,
                                        [nodes EXCEPT ![FreeNode] = w.node],
                                        [mgrs EXCEPT ![FreeMgr] = w.manager],
                                        parsed, ub,
                                        Done("next", 0, FreeNode, "Some", i, FALSE),
                                        [moved EXCEPT ![i].trace =
                                            Append(@, [node |-> r.pointer,
                                                       event |-> r.event])])
                                ELSE CommitIter(engine, nodes, mgrs, parsed, ub,
                                                Done("next", 0, 0, "None", i, FALSE),
                                                [moved EXCEPT ![i].failed = TRUE])

\* Mutant: a NodeIterator dropped without freeing its cursor.
drop_iterator_leaks(i) ==
    /\ ub = "none" /\ iters[i].state = "live"
    /\ CommitIter(engine, nodes, mgrs, parsed, ub, Idle,
                  [iters EXCEPT ![i] = [NoIter EXCEPT !.state = "dropped",
                                                      !.ended = iters[i].ended,
                                                      !.released = iters[i].released]])

\* Drop for NodeIterator: cmark_iter_free on the cursor.
drop_iterator(i) ==
    /\ ub = "none" /\ iters[i].state = "live"
    /\ CommitIter(engine, nodes, mgrs, parsed, ub, Idle,
                  [iters EXCEPT ![i] = [NoIter EXCEPT !.state = "dropped",
                                                      !.ended = iters[i].ended,
                                                      !.released = iters[i].released + 1]])

Next ==
    \/ \E shape \in ParseShapes : parse_document(shape)
    \/ \E k \in AllocKinds : from_type(k)
    \/ \E k \in AllocKinds : typed_new(k)
    \/ \E n \in NodeIds : next_sibling(n)
    \/ \E n \in NodeIds : prev_sibling(n)
    \/ \E n \in NodeIds : parent(n)
    \/ \E n \in NodeIds : first_child(n)
    \/ \E n \in NodeIds : last_child(n)
    \/ \E n \in NodeIds : itself(n)
    \/ \E n \in NodeIds : unlink(n)
    \/ \E n, c \in NodeIds : append_child(n, c)
    \/ \E n \in NodeIds : drop_node(n)
    \/ \E n \in NodeIds : manager(n)
    \/ \E m \in MgrIds : drop_manager_ref(m)

Spec == Init /\ [][Next]_vars

\* The navigation methods, with what they return kept in the history.
InitNav == Start(TRUE)

NextNav ==
    \/ \E shape \in ParseShapes : parse_document(shape)
    \/ \E n \in NodeIds : next_sibling(n)
    \/ \E n \in NodeIds : prev_sibling(n)
    \/ \E n \in NodeIds : parent(n)
    \/ \E n \in NodeIds : first_child(n)
    \/ \E n \in NodeIds : last_child(n)
    \/ \E n \in NodeIds : itself(n)
    \/ \E n \in NodeIds : unlink(n)
    \/ \E n \in NodeIds : drop_node(n)

SpecNav == InitNav /\ [][NextNav]_vars

\* Pairs of nodes of every type: MaxPair nodes made by from_type or from a raw
\* engine node of any code, then appended to one another.
NextKinds ==
    \/ \E node_type \in NodeType : engine.used < MaxPair /\ from_type(node_type)
    \/ \E code \in TypeCodes : engine.used < MaxPair /\ test_from_raw(code)
    \/ \E n, c \in NodeIds : append_child(n, c)

SpecKinds == Init /\ [][NextKinds]_vars

\* One ResourceManager and the calls of its methods.
NextManager ==
    \/ new_manager
    \/ \E m \in MgrIds, pointer \in Handles : manager_track_root(m, pointer)
    \/ \E m \in MgrIds, pointer \in Handles : manager_untrack_root(m, pointer)

SpecManager == Init /\ [][NextManager]_vars

\* Walks of parsed documents: iterators made, advanced and dropped, and the
\* Nodes they yield dropped.
NextIter ==
    \/ \E shape \in IterShapes : parse_document(shape)
    \/ \E n \in NodeIds : drop_node(n)
    \/ \E n \in NodeIds : iter(n)
    \/ \E i \in IterIds : next(i)
    \/ \E i \in IterIds : drop_iterator(i)

SpecIter == Init /\ [][NextIter]_vars

\* Identities: nodes allocated at any placement of the allocator, and their
\* ids asked for.
InitId == \E a \in Placements : StartAt([EmptyEngine EXCEPT !.address = a], FALSE)

NextId ==
    \/ \E k \in AllocKinds : engine.used < MaxPair /\ from_type(k)
    \/ \E n \in NodeIds : itself(n)
    \/ \E n \in NodeIds : get_id(n)

SpecId == InitId /\ [][NextId]_vars

\* Questions: can_append_child asked of the Nodes of parsed documents, attached
\* and unlinked.
NextAsk ==
    \/ \E shape \in ParseShapes : parse_document(shape)
    \/ \E n \in NodeIds : first_child(n)
    \/ \E n \in NodeIds : unlink(n)
    \/ \E n \in NodeIds : drop_node(n)
    \/ \E n, c \in NodeIds : can_append_child_call(n, c)

SpecAsk == Init /\ [][NextAsk]_vars

\* Edits: the Nodes of a parsed document unlinked and appended, and the tree
\* looked at through navigation with its returns kept in the history.
NextEdit ==
    \/ \E shape \in ParseShapes : parse_document(shape)
    \/ \E n \in NodeIds : next_sibling(n)
    \/ \E n \in NodeIds : prev_sibling(n)
    \/ \E n \in NodeIds : parent(n)
    \/ \E n \in NodeIds : first_child(n)
    \/ \E n \in NodeIds : last_child(n)
    \/ \E n \in NodeIds : unlink(n)
    \/ \E n, c \in NodeIds : append_child(n, c)

SpecEdit == InitNav /\ [][NextEdit]_vars

\* Texts: a Text or a CodeBlock made by its constructor, its content or
\* fence info set and read.
TextKinds == {"CMarkNodeText", "CMarkNodeCodeBlock"}

NextText ==
    \/ \E k \in TextKinds : engine.used = 0 /\ typed_new(k)
    \/ \E n \in NodeIds, content \in Strings : set_content(n, content)
    \/ \E n \in NodeIds : get_content(n)
    \/ \E n \in NodeIds, info \in Strings : set_fence_info(n, info)
    \/ \E n \in NodeIds : get_fence_info(n)

SpecText == Init /\ [][NextText]_vars

\* Drift: walks of documents in which the engine reports, for one node below
\* the root, a kind NodeType does not have.
NextDrift ==
    \/ \E shape \in IterShapes, code \in DriftCodes :
          \E at \in 2..Len(shape) : parse_drifted(shape, at, code)
    \/ \E n \in NodeIds : drop_node(n)
    \/ \E n \in NodeIds : iter(n)
    \/ \E i \in IterIds : next(i)
    \/ \E i \in IterIds : drop_iterator(i)

SpecDrift == Init /\ [][NextDrift]_vars

\* Owners: the nodes of a parsed document reached through several Nodes,
\* unlinked, appended again and the Nodes dropped.
NextOwn ==
    \/ \E shape \in ParseShapes : parse_document(shape)
    \/ \E n \in NodeIds : first_child(n)
    \/ \E n \in NodeIds : unlink(n)
    \/ \E n, c \in NodeIds : append_child(n, c)
    \/ \E n \in NodeIds : drop_node(n)

SpecOwn == Init /\ [][NextOwn]_vars

\* The edits of a parsed tree with lists in it: an Item accepts a List, so that
\* only the engine's look at the ancestors stands between an item and a cycle.
NextForest ==
    \/ \E shape \in IterShapes : parse_document(shape)
    \/ \E n \in NodeIds : first_child(n)
    \/ \E n \in NodeIds : unlink(n)
    \/ \E n, c \in NodeIds : append_child(n, c)

SpecForest == Init /\ [][NextForest]_vars

\* Pruning: nodes reached by navigation and unlinked, and the document walked
\* afterwards.
NextPrune ==
    \/ \E shape \in IterShapes : parse_document(shape)
    \/ \E n \in NodeIds : first_child(n)
    \/ \E n \in NodeIds : unlink(n)
    \/ \E n \in NodeIds : drop_node(n)
    \/ \E n \in NodeIds : iter(n)
    \/ \E i \in IterIds : next(i)

SpecPrune == Init /\ [][NextPrune]_vars

\* ---------------------------------------------------------------- claims

Allocated == 1..engine.used

Unfreed == {h \in Allocated : ~IsFreed(engine, h)}

\* The handles some live manager tracks.
Tracked == {h \in Handles : \E m \in MgrIds : mgrs[m].alive /\ is_tracking(mgrs[m].roots, h)}

\* The tracked set of the manager the Node in slot n holds.
RootsOf(n) == mgrs[nodes[n].manager].roots

\* C1: no node handle is ever freed twice, freeing a tracked root counting as
\* freeing every node of its subtree.
C1_NoHandleFreedTwice == \A h \in Handles : engine.freeCount[h] <= 1

\* C2: once every Node and every manager reference has been dropped, every
\* handle that was allocated has been freed.
C2_NoHandleLeaks ==
    (LiveNodes = {} /\ \A m \in MgrIds : ~mgrs[m].alive)
        => \A h \in Allocated : IsFreed(engine, h)

\* C3: between operations, an unfreed handle is tracked by some manager if and
\* only if it has no parent.
C3_TrackedIffParentless ==
    \A h \in Unfreed : (h \in Tracked) <=> (engine.parent[h] = NULL)

\* C4: from_type and the typed constructors return a Node on a newly
\* allocated handle with a manager of its own, which tracks that handle.
C4_FromTypeTracksHandle ==
    last.op \in {"from_type", "new"} =>
        LET n == last.node
        IN  /\ nodes[n].live
            /\ nodes[n].pointer = engine.used
            /\ StrongCount(nodes, mgrs, nodes[n].manager) = 1
            /\ is_tracking(RootsOf(n), nodes[n].pointer)

\* C5: parse_document returns a Document Node whose handle its new manager
\* tracks, and the manager tracks it for as long as the manager is referenced,
\* also after the returned Node is dropped.
C5_ParsedRootStaysTracked ==
    /\ last.op = "parse_document" =>
          LET n == last.node
          IN  /\ nodes[n].variant = "Document"
              /\ TypeName(engine.kind[nodes[n].pointer]) = "Document"
              /\ parsed[nodes[n].manager] = nodes[n].pointer
              /\ RootsOf(n) = <<nodes[n].pointer>>
              /\ StrongCount(nodes, mgrs, nodes[n].manager) = 1
    /\ \A m \in MgrIds :
          (mgrs[m].alive /\ parsed[m] # NULL) => is_tracking(mgrs[m].roots, parsed[m])

\* C5 witness: the parsed Node is gone and a kept reference holds its
\* manager, which still tracks the root.
C5_Witness ==
    \E m \in MgrIds :
        /\ mgrs[m].alive /\ parsed[m] # NULL /\ mgrs[m].held = 1
        /\ \A n \in LiveNodes : nodes[n].manager # m
        /\ is_tracking(mgrs[m].roots, parsed[m])

\* C6: after unlink() the Node's handle is tracked by the Node's own manager.
C6_UnlinkTracksHandle ==
    last.op = "unlink" => is_tracking(RootsOf(last.node), nodes[last.node].pointer)

\* C6 witness: an attached node reached by navigation has been unlinked.
C6_Witness ==
    /\ last.op = "unlink" /\ last.attached
    /\ parsed[nodes[last.node].manager] = NULL
    /\ is_tracking(RootsOf(last.node), nodes[last.node].pointer)

\* C7: unlink() leaves the node without parent and siblings, leaves its
\* subtree as it was, and leaves its former siblings under the former parent
\* in their order.
C7_UnlinkDetaches ==
    [][(last'.op = "unlink" /\ ub' = "none") =>
         LET h == nodes'[last'.node].pointer
             p == engine.parent[h]
         IN  /\ engine'.parent[h] = NULL
             /\ cmark_node_next(engine', h) = NULL
             /\ cmark_node_previous(engine', h) = NULL
             /\ \A x \in Handles : h \notin Range(engine'.children[x])
             /\ \A x \in Subtree(engine, h) :
                   /\ engine'.children[x] = engine.children[x]
                   /\ x # h => engine'.parent[x] = engine.parent[x]
             /\ p # NULL =>
                   /\ engine'.children[p] = SelectSeq(engine.children[p], LAMBDA x : x # h)
                   /\ \A x \in Range(engine'.children[p]) : engine'.parent[x] = p
             /\ \A x \in Handles \ {h, p} :
                   /\ engine'.children[x] = engine.children[x]
                   /\ engine'.parent[x] = engine.parent[x]]_vars

\* C7 witness: the middle one of three children has been unlinked.
C7_Witness ==
    /\ last.op = "unlink" /\ last.attached
    /\ engine.parent[nodes[last.node].pointer] = NULL
    /\ \E p \in Unfreed :
          /\ engine.children[p] = <<p + 1, p + 3>>
          /\ nodes[last.node].pointer = p + 2

\* C8: after a successful append_child the child's handle is tracked neither
\* by the child's manager nor by the parent's manager.
C8_AppendedChildUntracked ==
    (last.op = "append_child" /\ last.result = "Ok") =>
        /\ ~is_tracking(RootsOf(last.other), nodes[last.other].pointer)
        /\ ~is_tracking(RootsOf(last.node), nodes[last.other].pointer)

\* C8 witness: a child has been appended and is the last child of the parent.
C8_Witness ==
    /\ last.op = "append_child" /\ last.result = "Ok"
    /\ cmark_node_last_child(engine, nodes[last.node].pointer) = nodes[last.other].pointer
    /\ ~is_tracking(RootsOf(last.other), nodes[last.other].pointer)

\* C9: when the engine's append returns a status other than 1, append_child
\* returns ReturnCode with that status, and the child is left detached and
\* tracked by its manager.
C9_FailedAppendLeavesChildDetached ==
    (last.op = "append_child" /\ last.code # Success) =>
        LET c == nodes[last.other].pointer
        IN  /\ last.result = "ReturnCode"
            /\ engine.parent[c] = NULL
            /\ cmark_node_next(engine, c) = NULL
            /\ cmark_node_previous(engine, c) = NULL
            /\ \A x \in Handles : c \notin Range(engine.children[x])
            /\ is_tracking(RootsOf(last.other), c)

\* C9 witness: the engine refused a child that was attached when
\* append_child was called.
C9_Witness ==
    /\ last.op = "append_child" /\ last.result = "ReturnCode" /\ last.attached
    /\ engine.parent[nodes[last.other].pointer] = NULL

\* The places a handle has in the child lists.
PlacesOf(c) ==
    {pl \in Handles \X (1..MaxHandles) :
        pl[2] \in DOMAIN engine.children[pl[1]] /\ engine.children[pl[1]][pl[2]] = c}

\* C10: every node has at most one parent and at most one place in the child
\* lists, and the place is in the list of its parent.
C10_OnePlace ==
    \A c \in Handles :
        /\ Cardinality(PlacesOf(c)) <= 1
        /\ \A p \in Handles : (c \in Range(engine.children[p])) <=> (engine.parent[c] = p)

\* C10 witness: append_child has moved a node that was attached elsewhere.
C10_Witness ==
    /\ last.op = "append_child" /\ last.result = "Ok" /\ last.attached
    /\ engine.parent[nodes[last.other].pointer] = nodes[last.node].pointer

\* What can_append_child answers for the two Nodes of the append_child that
\* has just returned: it reads the variant of the parent Node and the type of
\* the child handle, which append_child leaves as they were.
CanAppendLast == can_append_child(engine, nodes[last.node], nodes[last.other])

C12_ItselfSharesManager ==
    (last.op = "itself" /\ last.result = "Some") =>
        /\ nodes[last.other].manager = nodes[last.node].manager
        /\ RootsOf(last.other) = RootsOf(last.node)

\* C13: two Nodes are equal exactly when their handles are, whatever their
\* managers: itself() equals the Node it was called on, every Node on the
\* first child of a node equals the one first_child() has just returned, and a
\* node is never equal to its first child.
C13_EqualIffSameHandle ==
    /\ \A a, b \in LiveNodes :
          eq(nodes[a], nodes[b]) <=> nodes[a].pointer = nodes[b].pointer
    /\ (last.op = "itself" /\ last.result = "Some") =>
          eq(nodes[last.node], nodes[last.other])
    /\ (last.op = "first_child" /\ last.result = "Some") =>
          /\ ~eq(nodes[last.node], nodes[last.other])
          /\ \A k \in LiveNodes :
                nodes[k].pointer = cmark_node_first_child(engine, nodes[last.node].pointer)
                    => eq(nodes[k], nodes[last.other])

\* C13 witness: first_child() has returned a Node on a handle another Node,
\* with another manager, already holds.
C13_Witness ==
    /\ last.op = "first_child" /\ last.result = "Some"
    /\ \E k \in LiveNodes :
          /\ k # last.other
          /\ nodes[k].manager # nodes[last.other].manager
          /\ eq(nodes[k], nodes[last.other])

\* The methods that wrap an engine pointer with from_raw.
NavOps == {"next_sibling", "prev_sibling", "parent", "first_child", "last_child"}

\* How many Nodes hold handle x[1] with a manager whose tracked vector is x[2].
Holders(N, M, x) ==
    Cardinality({n \in NodeIds :
                   N[n].live /\ N[n].pointer = x[1] /\ M[N[n].manager].roots = x[2]})

Holdings(N, M) == {<<N[n].pointer, M[N[n].manager].roots>> : n \in {k \in NodeIds : N[k].live}}

\* C14: a Node from_raw has built (for a navigation method or itself) has a
\* manager of its own that tracks nothing; every other Node keeps its manager
\* and that manager its tracked vector, and the engine's heap is as it was:
\* nothing allocated, nothing freed.
C14_FromRawFrame ==
    [][(last'.op \in NavOps \cup {"itself"} /\ last'.result = "Some") =>
         LET o == last'.other
         IN  /\ mgrs'[nodes'[o].manager].roots = << >>
             /\ StrongCount(nodes', mgrs', nodes'[o].manager) = 1
             /\ engine' = engine
             /\ \A x \in Holdings(nodes, mgrs) \cup Holdings(nodes', mgrs') :
                   Holders(nodes', mgrs', x) =
                       Holders(nodes, mgrs, x)
                       + (IF x = <<nodes'[o].pointer, << >> >> THEN 1 ELSE 0)]_vars

\* C14 witness: a Node built by from_raw for first_child() tracks nothing
\* while the Node it was called on tracks its root.
C14_Witness ==
    /\ last.op = "first_child" /\ last.result = "Some"
    /\ RootsOf(last.other) = << >>
    /\ RootsOf(last.node) = <<nodes[last.node].pointer>>

\* C15: from_raw on a handle whose reported code is beyond the registry fails
\* with BadEnum, on one that reports the none type fails with NodeNone, and
\* otherwise returns the variant of the reported type, a different variant
\* for each of the 20 types.
C15_FromRawClassifies ==
    /\ last.op = "from_raw" =>
          LET code == cmark_node_get_type(engine, engine.used)
          IN  /\ code \notin {CMarkNodeNone} \cup DOMAIN cmark_node_type =>
                    last.result = "BadEnum" /\ last.node = 0
              /\ code = CMarkNodeNone => last.result = "NodeNone" /\ last.node = 0
              /\ code \in DOMAIN cmark_node_type =>
                    /\ last.result = "Ok"
                    /\ nodes[last.node].live
                    /\ nodes[last.node].pointer = engine.used
                    /\ nodes[last.node].variant = cmark_node_type[code]
    /\ Cardinality({NodeVariant(try_from(c).value) : c \in DOMAIN cmark_node_type}) = 20

\* C15 witness: from_raw has refused a handle with a code beyond the registry.
C15_Witness ==
    /\ last.op = "from_raw" /\ last.result = "BadEnum"
    /\ cmark_node_get_type(engine, engine.used) = MaxTypeCode

\* What the engine answers to the primitive a navigation method calls.
EngineAnswer(op, h) ==
    CASE op = "next_sibling" -> cmark_node_next(engine, h)
      [] op = "prev_sibling" -> cmark_node_previous(engine, h)
      [] op = "parent" -> cmark_node_parent(engine, h)
      [] op = "first_child" -> cmark_node_first_child(engine, h)
      [] op = "last_child" -> cmark_node_last_child(engine, h)

\* C16: a navigation method returns the absent outcome, not an error, when
\* the engine has no such node, and a Node on the engine's handle when it has
\* one; it returns an error only when that handle's type cannot be classified.
C16_AbsentIsNotAnError ==
    last.op \in NavOps =>
        LET r == EngineAnswer(last.op, nodes[last.node].pointer)
        IN  /\ r = NULL => last.result = "None" /\ last.other = 0
            /\ r # NULL =>
                  IF from_raw(engine, 0, r).ok
                  THEN last.result = "Some" /\ nodes[last.other].pointer = r
                  ELSE last.result \in {"BadEnum", "NodeNone"} /\ last.other = 0

\* C16 witness: next_sibling() of a last child has returned the absent outcome.
C16_Witness ==
    /\ last.op = "next_sibling" /\ last.result = "None"
    /\ engine.parent[nodes[last.node].pointer] # NULL

Alive(M) == {m \in MgrIds : M[m].alive}

\* How many managers have the tracked vector r.
Managers(M, r) == Cardinality({m \in Alive(M) : M[m].roots = r})

\* The handles the engine frees when its free primitive is called on each
\* handle of a tracked vector.
FreedBy(E, roots) == UNION {Subtree(E, roots[i]) : i \in DOMAIN roots}

\* C17: a manager exists exactly as long as a Node or a kept clone refers to
\* it; a step that takes the last reference of a manager frees, once each, the
\* handles of its tracked vector (the engine freeing their subtrees with
\* them), and no other step frees anything.
C17_TeardownAtLastRelease ==
    [][/\ \A m \in MgrIds : mgrs'[m].alive <=> StrongCount(nodes', mgrs', m) > 0
       /\ LET freed == {h \in Handles : engine'.freeCount[h] # engine.freeCount[h]}
          IN  IF Cardinality(Alive(mgrs')) < Cardinality(Alive(mgrs))
              THEN \E m \in Alive(mgrs) :
                      /\ StrongCount(nodes, mgrs, m) = 1
                      /\ Cardinality(Alive(mgrs')) = Cardinality(Alive(mgrs)) - 1
                      /\ Managers(mgrs', mgrs[m].roots) = Managers(mgrs, mgrs[m].roots) - 1
                      /\ freed = FreedBy(engine, mgrs[m].roots)
                      /\ \A h \in freed : engine'.freeCount[h] = engine.freeCount[h] + 1
              ELSE freed = {}]_vars

\* C17 witness: the teardown of the manager of a parsed document has freed
\* the whole tree, once, and no manager is left.
C17_Witness ==
    /\ ub = "none" /\ engine.used >= 3
    /\ \A h \in Allocated : engine.freeCount[h] = 1
    /\ Alive(mgrs) = {} /\ LiveNodes = {}

\* No handle occurs twice in a tracked vector.
NoDuplicates(M) ==
    \A m \in Alive(M) : \A i, j \in DOMAIN M[m].roots :
        i # j => M[m].roots[i] # M[m].roots[j]

\* C18: track_root of a handle the manager already tracks leaves the tracked
\* vector as it is, and after any calls of track_root and untrack_root no
\* handle occurs twice in the vector.
C18_TrackRootIdempotent ==
    [][/\ NoDuplicates(mgrs')
       /\ last'.op = "track_root" =>
             \A m \in Alive(mgrs) :
                 /\ is_tracking(mgrs'[m].roots, last'.code)
                 /\ is_tracking(mgrs[m].roots, last'.code) =>
                        mgrs'[m].roots = mgrs[m].roots]_vars

\* C18 witness: track_root has been called for a handle that was tracked,
\* in a vector of three.
C18_Witness ==
    /\ last.op = "track_root" /\ last.attached
    /\ \E m \in Alive(mgrs) : Len(mgrs[m].roots) = 3 /\ mgrs[m].roots[2] = last.code

\* C19: untrack_root takes the handle out of the tracked vector and leaves
\* the other handles in their places; the vector is unchanged when the handle
\* was not tracked, and the handle is not tracked afterwards.
C19_UntrackRootRemoves ==
    [][last'.op = "untrack_root" =>
         \A m \in Alive(mgrs) :
             /\ ~is_tracking(mgrs'[m].roots, last'.code)
             /\ mgrs'[m].roots = SelectSeq(mgrs[m].roots, LAMBDA x : x # last'.code)
             /\ ~is_tracking(mgrs[m].roots, last'.code) =>
                    mgrs'[m].roots = mgrs[m].roots]_vars

\* C19 witness: untrack_root has taken the middle one of three tracked
\* handles, the other two are left.
C19_Witness ==
    /\ last.op = "untrack_root" /\ last.attached
    /\ \E m \in Alive(mgrs) :
          /\ Len(mgrs[m].roots) = 2
          /\ mgrs[m].roots[1] > last.code /\ last.code > mgrs[m].roots[2]

\* C20: no live Node holds a handle whose node has been freed.
C20_NoNodeOnFreedHandle == \A n \in LiveNodes : ~Dangling(n)

\* C21: once next() has returned None on a terminal event code of the engine,
\* the iterator yields nothing more: every later next() on it returns None.
C21_NonRestartable ==
    [][\A i \in IterIds :
          (iters[i].ended /\ iters'[i].state = "live") =>
              /\ iters'[i].ended
              /\ iters'[i].trace = iters[i].trace
              /\ (last'.op = "next" /\ last'.code = i) => last'.result = "None"]_vars

\* An iterator that has yielded pairs and then returned None on the done event.
C21_Witness ==
    \E i \in IterIds :
        /\ iters[i].state = "live" /\ iters[i].ended
        /\ iters[i].cursor.cur.ev_type = CMARK_EVENT_DONE
        /\ iters[i].cursor.next.ev_type = CMARK_EVENT_DONE
        /\ Len(iters[i].trace) > 0
        /\ last.op = "next" /\ last.code = i /\ last.result = "None"
\* C22: the walk of a subtree that does not change meanwhile is finite: next()
\* yields at most two pairs for each node of the subtree, so it returns None
\* after at most twice as many calls as there are nodes, and has returned
\* None once the engine has no event left.
C22_WalkIsFinite ==
    \A i \in IterIds :
        (iters[i].state = "live" /\ ~iters[i].disturbed) =>
            /\ Len(iters[i].trace) <= 2 * Cardinality(Subtree(engine, iters[i].cursor.root))
            /\ iters[i].cursor.cur.ev_type = CMARK_EVENT_DONE => iters[i].ended

\* A walk of a whole unchanged document of several nodes has ended.
C22_Witness ==
    \E i \in IterIds :
        /\ iters[i].state = "live" /\ ~iters[i].disturbed /\ iters[i].ended
        /\ Cardinality(Subtree(engine, iters[i].cursor.root)) = MaxHandles
        /\ Len(iters[i].trace) > MaxHandles
        /\ last.op = "next" /\ last.result = "None"
\* C23: the engine cursor of a NodeIterator is freed exactly once, when the
\* iterator is dropped, however far it was advanced: never while the iterator
\* is live, and once, not twice and not never, when it has gone.
C23_CursorReleasedOnce ==
    [][\A i \in IterIds :
          /\ iters'[i].state = "live" => iters'[i].released = 0
          /\ iters'[i].state = "dropped" => iters'[i].released = 1
          /\ (iters[i].state = "live" /\ iters'[i].state # "live") =>
                 iters'[i].state = "dropped"]_vars

\* An iterator walked to its end has been dropped and its cursor freed.
C23_Witness ==
    \E i \in IterIds :
        iters[i].state = "dropped" /\ iters[i].ended /\ iters[i].released = 1
\* The walk of the subtree of h in document order: h entered, then the walks
\* of its children in order, then h exited unless it is of a leaf kind.
RECURSIVE Walk(_, _), WalkAll(_, _)
Walk(E, h) ==
    <<[node |-> h, event |-> "Enter"]>> \o
    (IF S_is_leaf(E, h) THEN << >>
     ELSE WalkAll(E, E.children[h]) \o <<[node |-> h, event |-> "Exit"]>>)
WalkAll(E, hs) ==
    IF hs = << >> THEN << >> ELSE Walk(E, Head(hs)) \o WalkAll(E, Tail(hs))

\* C24: the pairs an iterator yields over an unchanged subtree are the walk of
\* the subtree in document order, one enter per node before the events of its
\* children and one exit per container after them: what has been yielded so
\* far is the start of that walk, and all of it once next() has returned None.
C24_WalkInDocumentOrder ==
    \A i \in IterIds :
        (iters[i].state = "live" /\ ~iters[i].disturbed) =>
            LET walk == Walk(engine, iters[i].cursor.root)
                trace == iters[i].trace
            IN  /\ Len(trace) <= Len(walk)
                /\ trace = SubSeq(walk, 1, Len(trace))
                /\ iters[i].ended => trace = walk

\* The walk of a parsed list of items has ended: every item entered once, in
\* order, and exited.
C24_Witness ==
    \E i \in IterIds :
        /\ iters[i].state = "live" /\ ~iters[i].disturbed /\ iters[i].ended
        /\ LET items == SelectSeq(iters[i].trace,
                                  LAMBDA e : /\ e.event = "Enter"
                                             /\ TypeName(engine.kind[e.node]) = "Item")
           IN  Len(items) > 1 /\ items[1].node < items[2].node
\* The live Nodes a handle has been unlinked through: the Node's own manager
\* tracks the handle, which is not the root of a parsed document.
UnlinkedThrough(n) ==
    /\ nodes[n].live
    /\ is_tracking(RootsOf(n), nodes[n].pointer)
    /\ engine.parent[nodes[n].pointer] = NULL
    /\ \A shape \in IterShapes : nodes[n].variant # shape[1].kind

\* What walks started after the unlink of the handle of Node n may not yield:
\* no iterator over an unchanged subtree that has the handle outside it and
\* is not rooted below it has yielded the handle or a descendant of it.
WalksAvoid(n) ==
    \A i \in IterIds :
        (/\ iters[i].state = "live" /\ ~iters[i].disturbed
         /\ iters[i].cursor.root \notin Subtree(engine, nodes[n].pointer)) =>
            \A k \in DOMAIN iters[i].trace :
                iters[i].trace[k].node \notin Subtree(engine, nodes[n].pointer)

\* C25: after unlink() of a node through a Node, the walks started afterwards
\* from a former ancestor yield neither the node nor a descendant of it, and
\* the node stays unfreed for as long as that Node is live.
C25_UnlinkedLeavesWalksAndLives ==
    \A n \in NodeIds :
        UnlinkedThrough(n) => (WalksAvoid(n) /\ ~IsFreed(engine, nodes[n].pointer))

\* The half of C25 about the walks alone.
C25_WalksAvoidUnlinked ==
    \A n \in NodeIds : UnlinkedThrough(n) => WalksAvoid(n)
\* C26: get_id is a unique identity: the id a Node has just reported is the
\* id of exactly the Nodes on the same handle.
C26_GetIdUnique ==
    last.op = "get_id" =>
        \A b \in LiveNodes :
            (Node_get_id(engine, nodes[b]) = last.code)
                <=> (nodes[b].pointer = nodes[last.node].pointer)
\* C27: can_append_child is pure: a call leaves the engine's tree and its
\* allocations, every manager's tracked set, the Nodes and the iterators as
\* they were, and its result is an error only if the engine reports for the
\* child a kind outside the registry.
C27_CanAppendChildIsPure ==
    [][(last'.op = "can_append_child" /\ ub' = "none") =>
          /\ engine' = engine
          /\ mgrs' = mgrs
          /\ nodes' = nodes
          /\ parsed' = parsed
          /\ iters' = iters
          /\ last'.result = "BadEnum" =>
                 ~try_from(cmark_node_get_type(engine, nodes'[last'.other].pointer)).ok]_vars

\* can_append_child has answered true for an attached, untracked child, and
\* false for another pair.
C27_Witness ==
    /\ last.op = "can_append_child" /\ last.result = "True"
    /\ engine.parent[nodes[last.other].pointer] # NULL
    /\ ~is_tracking(RootsOf(last.other), nodes[last.other].pointer)
    /\ nodes[last.node].variant = "Document" /\ nodes[last.other].variant = "Paragraph"
    /\ ~can_append_child(engine, nodes[last.other], nodes[last.node]).value
\* C28: a change of the tree made through one Node is seen at once through
\* every Node on the handles concerned.  A navigation call that follows an
\* unlink, on any Node of the unlinked handle, reports no parent and no
\* sibling; one that follows a successful append_child reports the new parent
\* for the child's handle and the child as the last child of the parent's.
C28_ChangesSeenThroughOtherNodes ==
    [][/\ (/\ last.op = "unlink"
           /\ last'.op \in {"parent", "next_sibling", "prev_sibling"}
           /\ nodes'[last'.node].pointer = nodes[last.node].pointer)
          => last'.result = "None"
       /\ (/\ last.op = "append_child" /\ last.result = "Ok"
           /\ last'.op = "parent"
           /\ nodes'[last'.node].pointer = nodes[last.other].pointer)
          => (/\ last'.result = "Some"
              /\ nodes'[last'.other].pointer = nodes[last.node].pointer)
       /\ (/\ last.op = "append_child" /\ last.result = "Ok"
           /\ last'.op = "last_child"
           /\ nodes'[last'.node].pointer = nodes[last.node].pointer)
          => (/\ last'.result = "Some"
              /\ nodes'[last'.other].pointer = nodes[last.other].pointer)]_vars

\* parent() has reported absent through a Node whose handle, once attached,
\* was unlinked through another Node: that Node's manager tracks the handle,
\* the asking Node's does not.
C28_Witness ==
    /\ last.op = "parent" /\ last.result = "None"
    /\ \A m \in MgrIds : parsed[m] # nodes[last.node].pointer
    /\ ~is_tracking(RootsOf(last.node), nodes[last.node].pointer)
    /\ \E a \in LiveNodes :
          /\ a # last.node
          /\ nodes[a].pointer = nodes[last.node].pointer
          /\ is_tracking(RootsOf(a), nodes[a].pointer)
\* C29: after a successful parent.append_child(child) the child is the last
\* child of the parent, its first child too when the parent has no other
\* child, and the parent is the parent of the child.
C29_AppendedChildIsLast ==
    (last.op = "append_child" /\ last.result = "Ok") =>
        LET self == nodes[last.node].pointer
            child == nodes[last.other].pointer
        IN  /\ EngineAnswer("last_child", self) = child
            /\ EngineAnswer("parent", child) = self
            /\ EngineAnswer("next_sibling", child) = NULL
            /\ Len(engine.children[self]) = 1 => EngineAnswer("first_child", self) = child
            /\ Len(engine.children[self]) > 1 => EngineAnswer("first_child", self) # child

\* A paragraph unlinked from a document of several has been appended to it
\* again and is now the last of them.
C29_Witness ==
    /\ last.op = "append_child" /\ last.result = "Ok" /\ last.attached = FALSE
    /\ Len(engine.children[nodes[last.node].pointer]) > 1
    /\ cmark_node_last_child(engine, nodes[last.node].pointer) = nodes[last.other].pointer
    /\ cmark_node_previous(engine, nodes[last.other].pointer) # NULL
\* C30: navigation is mutually consistent on every tree the operations leave:
\* the first and the last child of a node have that node as parent, the
\* previous sibling of a node's next sibling is the node, and the next
\* sibling of its previous sibling is the node.
C30_NavigationConsistent ==
    \A n \in LiveNodes :
        LET p == nodes[n].pointer
            first == EngineAnswer("first_child", p)
            final == EngineAnswer("last_child", p)
            after == EngineAnswer("next_sibling", p)
            before == EngineAnswer("prev_sibling", p)
        IN  /\ first # NULL => EngineAnswer("parent", first) = p
            /\ final # NULL => EngineAnswer("parent", final) = p
            /\ after # NULL => EngineAnswer("prev_sibling", after) = p
            /\ before # NULL => EngineAnswer("next_sibling", before) = p

\* After an unlink and an append_child that succeeded, a Node has a first
\* child and another has a next sibling.
C30_Witness ==
    /\ last.op = "append_child" /\ last.result = "Ok"
    /\ \E n \in LiveNodes : EngineAnswer("first_child", nodes[n].pointer) # NULL
    /\ \E n \in LiveNodes : EngineAnswer("next_sibling", nodes[n].pointer) # NULL
    /\ \E n \in LiveNodes : nodes[n].pointer = nodes[last.other].pointer
                              /\ EngineAnswer("prev_sibling", nodes[n].pointer) # NULL
\* The texts of letters and digits, in words separated by single spaces as
\* the property tests draw them.
Alphanumeric(string) ==
    /\ string # << >>
    /\ \A k \in DOMAIN string :
          \/ string[k] \in AlphanumericChars
          \/ string[k] = " " /\ k > 1 /\ k < Len(string) /\ string[k - 1] # " "

\* C31: the text handed to set_content is the text get_content returns next,
\* and the text handed to set_fence_info the one get_fence_info returns next,
\* for every alphanumeric text, whatever was set before; setting such a text
\* succeeds.
C31_SetGetRoundTrip ==
    [][/\ (last'.op \in {"set_content", "set_fence_info"} /\ Alphanumeric(last'.text))
          => last'.result = "Ok"
       /\ (/\ last.op = "set_content" /\ last.result = "Ok" /\ Alphanumeric(last.text)
           /\ last'.op = "get_content"
           /\ nodes'[last'.node].pointer = nodes[last.node].pointer)
          => (last'.result = "Ok" /\ last'.text = last.text)
       /\ (/\ last.op = "set_fence_info" /\ last.result = "Ok" /\ Alphanumeric(last.text)
           /\ last'.op = "get_fence_info"
           /\ nodes'[last'.node].pointer = nodes[last.node].pointer)
          => (last'.result = "Ok" /\ last'.text = last.text)]_vars

\* get_content has returned a text of a two-byte letter and an ASCII letter
\* that the engine holds as three bytes.
C31_Witness ==
    /\ last.op = "get_content" /\ last.result = "Ok"
    /\ last.text = <<"e-acute", "a">>
    /\ engine.literal[nodes[last.node].pointer] = as_bytes(last.text)
    /\ Len(engine.literal[nodes[last.node].pointer]) > Len(last.text)

\* get_fence_info has returned the info set_fence_info had stored.
C31_WitnessFence ==
    /\ last.op = "get_fence_info" /\ last.result = "Ok"
    /\ Alphanumeric(last.text)
    /\ engine.fence_info[nodes[last.node].pointer] = as_bytes(last.text)
\* C32: when a node the cursor has reached cannot be wrapped in a Node, next()
\* returns None, and from then on the iterator yields no further pair.
C32_FailedStepEndsWalk ==
    [][\A i \in IterIds :
          /\ (iters'[i].failed /\ ~iters[i].failed) =>
                 (last'.op = "next" /\ last'.code = i /\ last'.result = "None")
          /\ (iters[i].failed /\ iters'[i].state = "live") =>
                 iters'[i].trace = iters[i].trace]_vars
\* The root of the tree h is in: h or its ancestor without a parent.
RootOf(E, h) ==
    CHOOSE r \in Above(E, h, MaxHandles) \cup {h} : E.parent[r] = NULL

\* C33: a node that is attached, as a child is after a successful
\* append_child, is freed only with the root of its tree: no step frees it,
\* by the drop of a Node that wraps it or otherwise, and leaves that root
\* unfreed.
C33_AttachedFreedOnlyWithRoot ==
    [][\A h \in Handles :
          (/\ engine.parent[h] # NULL
           /\ ~IsFreed(engine, h)
           /\ IsFreed(engine', h))
          => IsFreed(engine', RootOf(engine, h))]_vars
Tracking(M, P, k) == Cardinality({m \in Alive(M) : <<M[m].roots, P[m]>> = k})

TrackingKeys(M, P) == {<<M[m].roots, P[m]>> : m \in Alive(M)}

\* C35: a step changes the tracked vector of one manager at most: parse_document
\* and navigation add one manager, teardown removes one, and unlink and
\* append_child change only the manager of the Node that is unlinked, by that
\* Node's pointer; every other manager keeps its vector, the ones that track
\* the same handle included.
C35_OneManagerChanges ==
    [][LET keys == TrackingKeys(mgrs, parsed) \cup TrackingKeys(mgrs', parsed')
           delta == [k \in keys |-> Tracking(mgrs', parsed', k) - Tracking(mgrs, parsed, k)]
           lost == {k \in keys : delta[k] < 0}
           gained == {k \in keys : delta[k] > 0}
           moved(pointer, own) ==
               \/ lost = {} /\ gained = {}
               \/ \E k \in lost : \E g \in gained :
                     /\ lost = {k} /\ gained = {g}
                     /\ delta[k] = -1 /\ delta[g] = 1
                     /\ g[2] = k[2]
                     /\ g[1] \in {track_root(k[1], pointer), untrack_root(k[1], pointer)}
                     /\ own = g
       IN  /\ \A k \in keys : delta[k] \in {-1, 0, 1}
           /\ Cardinality(lost) <= 1 /\ Cardinality(gained) <= 1
           /\ last'.op = "unlink" =>
                 moved(nodes'[last'.node].pointer,
                       <<mgrs'[nodes'[last'.node].manager].roots,
                         parsed'[nodes'[last'.node].manager]>>)
           /\ last'.op = "append_child" =>
                 moved(nodes'[last'.other].pointer,
                       <<mgrs'[nodes'[last'.other].manager].roots,
                         parsed'[nodes'[last'.other].manager]>>)
           /\ last'.op \notin {"unlink", "append_child"} =>
                 lost = {} \/ gained = {}]_vars

\* append_child has attached a node and untracked it in its manager while
\* another manager goes on tracking the same handle.
C35_Witness ==
    /\ last.op = "append_child" /\ last.result = "Ok"
    /\ mgrs[nodes[last.other].manager].roots = << >>
    /\ \E m \in Alive(mgrs) : nodes[last.other].pointer \in Range(mgrs[m].roots)
\* C36: no handle is in the tracked vector of two managers at once.
C36_TrackedByOneManager ==
    \A m1, m2 \in Alive(mgrs) :
        m1 # m2 => Range(mgrs[m1].roots) \cap Range(mgrs[m2].roots) = {}
\* How often handle h is in the child list of p.
Occurrences(E, p, h) == Cardinality({i \in DOMAIN E.children[p] : E.children[p][i] = h})

C37_WitnessMoved ==
    /\ last.op = "append_child" /\ last.result = "Ok" /\ last.attached
\* C38: when a Node through which its node was unlinked, and which alone holds
\* its manager, is dropped, the node and all of its subtree are freed by that
\* step, whatever Nodes and iterators still refer to nodes of the subtree.
C38_UnlinkedFreedAtDrop ==
    [][Cardinality({n \in NodeIds : nodes'[n].live}) < Cardinality(LiveNodes) =>
          \A n \in LiveNodes :
              (/\ UnlinkedThrough(n)
               /\ StrongCount(nodes, mgrs, nodes[n].manager) = 1
               /\ ~IsFreed(engine, nodes[n].pointer)
               /\ Holders(nodes', mgrs', <<nodes[n].pointer, RootsOf(n)>>)
                      < Holders(nodes, mgrs, <<nodes[n].pointer, RootsOf(n)>>))
              => \A h \in Subtree(engine, nodes[n].pointer) : IsFreed(engine', h)]_vars

\* The drop has freed an unlinked paragraph and the text below it while the
\* document is unfreed, and a live Node that unlinked nothing still wraps a
\* freed node.
C38_Witness ==
    /\ ub = "none" /\ last.op = "other"
    /\ \E h \in Allocated : TypeName(engine.kind[h]) = "Document" /\ ~IsFreed(engine, h)
    /\ Cardinality({h \in Allocated : IsFreed(engine, h)}) >= 2
    /\ \E n \in LiveNodes : IsFreed(engine, nodes[n].pointer) /\ RootsOf(n) = << >>
\* C39: while an iterator is live and its walk has not reached the end, the
\* node its cursor is at and the node it visits next are unfreed.
C39_CursorOnUnfreedNodes ==
    \A i \in IterIds :
        (iters[i].state = "live" /\ iters[i].cursor.next.ev_type # CMARK_EVENT_DONE) =>
            \A h \in {iters[i].cursor.cur.node, iters[i].cursor.next.node} \ {NULL} :
                ~IsFreed(engine, h)
\* The tracked vectors of the live managers, each with how many managers have it.
TrackedVectors(M) == [r \in {M[m].roots : m \in Alive(M)} |-> Managers(M, r)]

\* The live Nodes that wrap the handle.
Wrapping(h) == {n \in LiveNodes : nodes[n].pointer = h}

\* C40: unlink called through the one Node of a node that has no parent and is
\* tracked by that Node's manager, as it is after a first unlink through the
\* Node and as a parsed root is, changes neither the tree nor the tracked
\* vector of any manager.
C40_UnlinkIdempotent ==
    [][(last'.op = "unlink" /\ ub' = "none") =>
          \A n \in LiveNodes :
              (/\ Wrapping(nodes'[last'.node].pointer) = {n}
               /\ engine.parent[nodes[n].pointer] = NULL
               /\ is_tracking(RootsOf(n), nodes[n].pointer))
              => /\ engine' = engine
                 /\ mgrs'[nodes'[last'.node].manager].roots = RootsOf(n)
                 /\ TrackedVectors(mgrs') = TrackedVectors(mgrs)]_vars

\* unlink was called for a paragraph or text that had no parent any more, through
\* the only Node that wraps it, whose manager tracks it.
C40_Witness ==
    /\ last.op = "unlink" /\ ~last.attached /\ ub = "none"
    /\ Wrapping(nodes[last.node].pointer) = {last.node}
    /\ nodes[last.node].variant # "Document"
    /\ RootsOf(last.node) = <<nodes[last.node].pointer>>

\* unlink was called through the Node of a parsed root.
C40_WitnessRoot ==
    /\ last.op = "unlink" /\ ~last.attached /\ ub = "none"
    /\ parsed[nodes[last.node].manager] = nodes[last.node].pointer
====
